---- MODULE Spec2Model ----
(***************************************************************************)
(* Model of ScheduleOptimizer                                              *)
(* (agents/research-productivity-optimizer/time_optimization/              *)
(*  schedule_optimizer.py): the greedy task-to-slot scheduler, its data    *)
(* model and its reporting operations.                                     *)
(*                                                                         *)
(* Times are whole minutes.  A datetime is a number of minutes since the   *)
(* midnight of day 0; a time of day is a number of minutes since midnight. *)
(* Python floats are modelled as exact rationals <<n, d>> in lowest terms  *)
(* with d > 0; the decimal literals of the code (1.2, 0.3, ...) are the    *)
(* rationals they denote.  An Optional value is a set with at most one     *)
(* element ({} is None).  A dict whose iteration order matters (the task   *)
(* map) is a sequence in insertion order.                                  *)
(***************************************************************************)
EXTENDS Integers, Sequences, FiniteSets, TLC

VARIABLES
    productivity_patterns,  \* self.productivity_patterns: user_id -> pattern
    tasks,                  \* self.tasks, in insertion order
    schedules,              \* self.schedules: date -> DailySchedule
    now,                    \* datetime.now()
    ret                     \* the last call: [op, args.., value]

vars == <<productivity_patterns, tasks, schedules, now, ret>>

(***************************************************************************)
(* Bounds of the model.                                                    *)
(***************************************************************************)
MaxTasks == 2           \* tasks held by the optimizer
MaxDays == 2            \* largest `days` argument of a run
MaxCompleted == 70      \* cap on completed_duration reached by updates
MaxSorted == 3          \* longest list given to the sort on its own

(***************************************************************************)
(* Program constants.                                                      *)
(***************************************************************************)
MinutesPerDay == 1440
MinutesPerHour == 60
min_task_block_minutes == 30
efficiency_threshold_tenths == 7
overload_minutes == 480
flex_duration_base == 180
default_focus_duration == 90
default_break_duration == 15
default_context_building_time == 10

(***************************************************************************)
(* Exact rational arithmetic for the float computations.                   *)
(***************************************************************************)
Abs(x) == IF x < 0 THEN -x ELSE x

RECURSIVE GCD(_, _)
GCD(a, b) == IF b = 0 THEN a ELSE GCD(b, a % b)

Rat(n, d) ==
    LET s == IF d < 0 THEN -1 ELSE 1
        g == GCD(Abs(n), Abs(d))
    IN  <<(s * n) \div g, (s * d) \div g>>

RInt(k) == <<k, 1>>
Tenths(k) == Rat(k, 10)
Hundredths(k) == Rat(k, 100)
RAdd(x, y) == Rat(x[1] * y[2] + y[1] * x[2], x[2] * y[2])
RMul(x, y) == Rat(x[1] * y[1], x[2] * y[2])
RDivInt(x, k) == Rat(x[1], x[2] * k)
RLt(x, y) == x[1] * y[2] < y[1] * x[2]
RLe(x, y) == x[1] * y[2] <= y[1] * x[2]
RMax(x, y) == IF RLt(x, y) THEN y ELSE x
RMin(x, y) == IF RLt(y, x) THEN y ELSE x
\* int(x) of Python: truncation towards zero
RTrunc(x) == IF x[1] >= 0 THEN x[1] \div x[2] ELSE -((-x[1]) \div x[2])

Min(a, b) == IF a < b THEN a ELSE b
Max(a, b) == IF a > b THEN a ELSE b

(***************************************************************************)
(* Enumerations.                                                           *)
(***************************************************************************)
TaskPriority ==
    [CRITICAL |-> 5, HIGH |-> 4, MEDIUM |-> 3, LOW |-> 2, OPTIONAL |-> 1]

TaskType ==
    {"research", "writing", "analysis", "coding", "reading", "meeting",
     "review", "admin"}

EnergyLevel == {"PEAK", "HIGH", "MEDIUM", "LOW"}

\* dict.get(key, default)
Get(f, k, default) == IF k \in DOMAIN f THEN f[k] ELSE default

(***************************************************************************)
(* ResearchTask and its derived properties.                                *)
(***************************************************************************)
remaining_duration(task) ==
    Max(0, task.estimated_duration - task.completed_duration)

\* completion read off the remaining work instead of the ratio
is_completed_byduration(task) == remaining_duration(task) = 0

\* the test with > in place of >=
is_completed_strict(task) == task.completion_ratio > 100

\* done by the ratio or by having no work left
is_completed_either(task) ==
    task.completion_ratio >= 100 \/ remaining_duration(task) = 0

\* completion_ratio is kept in percent: 100 is 1.0
is_completed(task) == task.completion_ratio >= 100

\* the difference taken the other way round
DaysUntil_swapped(deadline, at) == (at - deadline) \div MinutesPerDay

\* timedelta.days of (deadline - at): the floor of the difference in days
DaysUntil(deadline, at) == (deadline - at) \div MinutesPerDay

\* the steps with the three-day step ending a day early
urgency_score_early(task, at) ==
    IF task.deadline = {} THEN TaskPriority[task.priority]
    ELSE LET days_until_deadline ==
                 DaysUntil(CHOOSE d \in task.deadline : TRUE, at)
         IN  IF days_until_deadline <= 0 THEN 10
             ELSE IF days_until_deadline <= 1 THEN 8
             ELSE IF days_until_deadline < 3 THEN 6
             ELSE IF days_until_deadline <= 7 THEN 4
             ELSE TaskPriority[task.priority]

urgency_score(task, at) ==
    IF task.deadline = {} THEN TaskPriority[task.priority]
    ELSE LET days_until_deadline ==
                 DaysUntil(CHOOSE d \in task.deadline : TRUE, at)
         IN  IF days_until_deadline <= 0 THEN 10
             ELSE IF days_until_deadline <= 1 THEN 8
             ELSE IF days_until_deadline <= 3 THEN 6
             ELSE IF days_until_deadline <= 7 THEN 4
             ELSE TaskPriority[task.priority]

(***************************************************************************)
(* ProductivityPattern: the constructor with the defaults of               *)
(* __post_init__.  Preferences are kept in hundredths (90 is 0.9).         *)
(***************************************************************************)
DefaultDailyEnergy ==
    (9 :> "HIGH") @@ (10 :> "PEAK") @@ (11 :> "PEAK") @@ (12 :> "MEDIUM") @@
    (13 :> "LOW") @@ (14 :> "MEDIUM") @@ (15 :> "HIGH") @@ (16 :> "HIGH") @@
    (17 :> "MEDIUM") @@ (18 :> "LOW") @@ (19 :> "LOW") @@ (20 :> "MEDIUM")

DefaultTaskPreferences ==
    [research |-> 100, writing |-> 90, analysis |-> 110, coding |-> 100,
     reading |-> 80, meeting |-> 70, review |-> 90, admin |-> 60]

ProductivityPattern(user_id, kwargs) ==
    [user_id |-> user_id,
     daily_energy |->
         IF DOMAIN kwargs.daily_energy = {} THEN DefaultDailyEnergy
         ELSE kwargs.daily_energy,
     task_preferences |->
         IF DOMAIN kwargs.task_preferences = {} THEN DefaultTaskPreferences
         ELSE kwargs.task_preferences,
     preferred_work_start |-> kwargs.preferred_work_start,
     preferred_work_end |-> kwargs.preferred_work_end,
     focus_duration |-> kwargs.focus_duration,
     break_duration |-> kwargs.break_duration,
     context_building_time |-> kwargs.context_building_time]

(***************************************************************************)
(* TimeSlot, with the duration default of __post_init__.                   *)
(***************************************************************************)
\* the constructor with start and end exchanged
TimeSlot_swapped(start_time, end_time, duration_minutes, energy_level) ==
    [start_time |-> end_time,
     end_time |-> start_time,
     duration_minutes |-> duration_minutes,
     energy_level |-> energy_level]

TimeSlot(start_time, end_time, duration_minutes, energy_level) ==
    [start_time |-> start_time,
     end_time |-> end_time,
     duration_minutes |->
         IF duration_minutes = 0 THEN end_time - start_time
         ELSE duration_minutes,
     energy_level |-> energy_level]

\* datetime.hour
HourOf(t) == (t % MinutesPerDay) \div MinutesPerHour

\* datetime.replace(hour=0, minute=0, second=0, microsecond=0)
Midnight(t) == (t \div MinutesPerDay) * MinutesPerDay

(***************************************************************************)
(* _sort_tasks_by_priority: sorted(tasks, key=task_score, reverse=True),   *)
(* a stable sort.                                                          *)
(***************************************************************************)
task_score(task, at) ==
    LET urgency == urgency_score(task, at)
        \* remaining_work * 0.1 with remaining_work = remaining / 60 hours
        remaining_work == Rat(remaining_duration(task), 600)
        deadline_pressure ==
            IF task.deadline = {} THEN 0
            ELSE Max(0, 10 - DaysUntil(CHOOSE d \in task.deadline : TRUE, at))
    IN  RAdd(RInt(urgency * 2 + deadline_pressure), remaining_work)

\* the insertion that puts x before the elements of equal key
RECURSIVE InsertByScore_unstable(_, _, _)
InsertByScore_unstable(sorted, x, at) ==
    IF sorted = <<>> THEN <<x>>
    ELSE IF RLe(task_score(Head(sorted), at), task_score(x, at))
         THEN <<x>> \o sorted
         ELSE <<Head(sorted)>> \o InsertByScore_unstable(Tail(sorted), x, at)

\* insert x after every element whose key is at least the key of x
RECURSIVE InsertByScore(_, _, _)
InsertByScore(sorted, x, at) ==
    IF sorted = <<>> THEN <<x>>
    ELSE IF RLt(task_score(Head(sorted), at), task_score(x, at))
         THEN <<x>> \o sorted
         ELSE <<Head(sorted)>> \o InsertByScore(Tail(sorted), x, at)

RECURSIVE SortFrom(_, _, _)
SortFrom(todo, sorted, at) ==
    IF todo = <<>> THEN sorted
    ELSE SortFrom(Tail(todo), InsertByScore(sorted, Head(todo), at), at)

_sort_tasks_by_priority(task_list, at) == SortFrom(task_list, <<>>, at)

(***************************************************************************)
(* _generate_time_slots                                                    *)
(***************************************************************************)
\* the loop with the break left out of the step to the next slot
RECURSIVE SlotLoop_nobreak(_, _, _, _)
SlotLoop_nobreak(current_time, work_end, pattern, slots) ==
    IF ~(current_time < work_end) THEN slots
    ELSE LET remaining_minutes == work_end - current_time
             slot_duration == Min(pattern.focus_duration, remaining_minutes)
         IN  IF slot_duration < min_task_block_minutes THEN slots
             ELSE LET slot_end == current_time + slot_duration
                      energy_level ==
                          Get(pattern.daily_energy, HourOf(current_time),
                              "MEDIUM")
                      slot == [start_time |-> current_time,
                               end_time |-> slot_end,
                               duration_minutes |-> slot_duration,
                               energy_level |-> energy_level]
                  IN  SlotLoop_nobreak(slot_end, work_end, pattern,
                                       Append(slots, slot))

\* the loop stopping already at a slot of exactly the minimum block size
RECURSIVE SlotLoop_minstrict(_, _, _, _)
SlotLoop_minstrict(current_time, work_end, pattern, slots) ==
    IF ~(current_time < work_end) THEN slots
    ELSE LET remaining_minutes == work_end - current_time
             slot_duration == Min(pattern.focus_duration, remaining_minutes)
         IN  IF slot_duration <= min_task_block_minutes THEN slots
             ELSE LET slot_end == current_time + slot_duration
                      energy_level ==
                          Get(pattern.daily_energy, HourOf(current_time),
                              "MEDIUM")
                      slot == TimeSlot(current_time, slot_end, slot_duration,
                                       energy_level)
                  IN  SlotLoop_minstrict(slot_end + pattern.break_duration,
                                         work_end, pattern,
                                         Append(slots, slot))

RECURSIVE SlotLoop(_, _, _, _)
SlotLoop(current_time, work_end, pattern, slots) ==
    IF ~(current_time < work_end) THEN slots
    ELSE LET remaining_minutes == work_end - current_time
             slot_duration == Min(pattern.focus_duration, remaining_minutes)
         IN  IF slot_duration < min_task_block_minutes THEN slots
             ELSE LET slot_end == current_time + slot_duration
                      energy_level ==
                          Get(pattern.daily_energy, HourOf(current_time),
                              "MEDIUM")
                      slot == TimeSlot(current_time, slot_end, slot_duration,
                                       energy_level)
                  IN  SlotLoop(slot_end + pattern.break_duration, work_end,
                               pattern, Append(slots, slot))

\* the work hours laid from the given instant instead of from its day
_generate_time_slots_fromdate(date, pattern) ==
    LET work_start == date + pattern.preferred_work_start
        work_end == date + pattern.preferred_work_end
    IN  SlotLoop(work_start, work_end, pattern, <<>>)

_generate_time_slots(date, pattern) ==
    LET work_start == Midnight(date) + pattern.preferred_work_start
        work_end == Midnight(date) + pattern.preferred_work_end
    IN  SlotLoop(work_start, work_end, pattern, <<>>)

(***************************************************************************)
(* _calculate_task_slot_match_score                                        *)
(***************************************************************************)
energy_bonus ==
    [PEAK |-> Tenths(20), HIGH |-> Tenths(15), MEDIUM |-> Tenths(10),
     LOW |-> Tenths(3)]

TimePreferenceMatches(task, hour) ==
    \/ task.preferred_time_of_day = "morning" /\ hour < 12
    \/ task.preferred_time_of_day = "afternoon" /\ 12 <= hour /\ hour < 18
    \/ task.preferred_time_of_day = "evening" /\ hour >= 18

_calculate_task_slot_match_score(task, slot, pattern, at) ==
    LET energy ==
            IF task.requires_deep_focus THEN energy_bonus[slot.energy_level]
            ELSE RInt(1)
        task_pref ==
            Hundredths(Get(pattern.task_preferences, task.task_type, 100))
        time_pref ==
            IF TimePreferenceMatches(task, HourOf(slot.start_time))
            THEN RInt(1) ELSE RInt(0)
        urgency == RMul(RInt(urgency_score(task, at)), Tenths(3))
        duration_ratio ==
            Rat(Min(remaining_duration(task), slot.duration_minutes),
                slot.duration_minutes)
    IN  RAdd(RAdd(RAdd(RAdd(energy, task_pref), time_pref), urgency),
             RMul(duration_ratio, Rat(1, 2)))

(***************************************************************************)
(* _find_best_task_for_slot: None ({}) or the first task of maximal score  *)
(***************************************************************************)
\* the loop in which a later task of equal score replaces the best so far
RECURSIVE BestLoop_lastwins(_, _, _, _, _, _)
BestLoop_lastwins(available_tasks, best_task, best_score, slot, pattern, at) ==
    IF available_tasks = <<>> THEN best_task
    ELSE LET task == Head(available_tasks)
             rest == Tail(available_tasks)
         IN  IF remaining_duration(task) < min_task_block_minutes
             THEN BestLoop_lastwins(rest, best_task, best_score, slot,
                                    pattern, at)
             ELSE LET score ==
                          _calculate_task_slot_match_score(task, slot,
                                                           pattern, at)
                  IN  IF RLe(best_score, score)
                      THEN BestLoop_lastwins(rest, {task}, score, slot,
                                             pattern, at)
                      ELSE BestLoop_lastwins(rest, best_task, best_score,
                                             slot, pattern, at)

\* the loop without the test of the minimum block size
RECURSIVE BestLoop_nomin(_, _, _, _, _, _)
BestLoop_nomin(available_tasks, best_task, best_score, slot, pattern, at) ==
    IF available_tasks = <<>> THEN best_task
    ELSE LET task == Head(available_tasks)
             rest == Tail(available_tasks)
             score == _calculate_task_slot_match_score(task, slot, pattern,
                                                       at)
         IN  IF RLt(best_score, score)
             THEN BestLoop_nomin(rest, {task}, score, slot, pattern, at)
             ELSE BestLoop_nomin(rest, best_task, best_score, slot, pattern,
                                 at)

RECURSIVE BestLoop(_, _, _, _, _, _)
BestLoop(available_tasks, best_task, best_score, slot, pattern, at) ==
    IF available_tasks = <<>> THEN best_task
    ELSE LET task == Head(available_tasks)
             rest == Tail(available_tasks)
         IN  IF remaining_duration(task) < min_task_block_minutes
             THEN BestLoop(rest, best_task, best_score, slot, pattern, at)
             ELSE LET score ==
                          _calculate_task_slot_match_score(task, slot,
                                                           pattern, at)
                  IN  IF RLt(best_score, score)
                      THEN BestLoop(rest, {task}, score, slot, pattern, at)
                      ELSE BestLoop(rest, best_task, best_score, slot,
                                    pattern, at)

_find_best_task_for_slot(slot, task_list, allocated_tasks, pattern, at) ==
    LET available_tasks ==
            SelectSeq(task_list,
                      LAMBDA t : t.task_id \notin allocated_tasks
                                 /\ ~is_completed(t))
    IN  BestLoop(available_tasks, {}, RInt(-1), slot, pattern, at)

(***************************************************************************)
(* _calculate_task_efficiency                                              *)
(***************************************************************************)
energy_multiplier ==
    [PEAK |-> Tenths(12), HIGH |-> Tenths(10), MEDIUM |-> Tenths(8),
     LOW |-> Tenths(6)]

\* the clamp without its lower bound
Clamp_nofloor(base_efficiency) == RMin(RInt(1), base_efficiency)

Clamp(base_efficiency) == RMin(RInt(1), RMax(Tenths(3), base_efficiency))

\* the efficiency without the deep focus bonus and penalty
BaseEfficiency_nobonus(task, slot, pattern) ==
    LET e1 == energy_multiplier[slot.energy_level]
        e2 == RMul(e1, Hundredths(Get(pattern.task_preferences,
                                      task.task_type, 100)))
    IN  IF slot.duration_minutes < pattern.context_building_time * 2
        THEN RMul(e2, RMax(Rat(1, 2),
                           Rat(slot.duration_minutes
                                   - pattern.context_building_time,
                               slot.duration_minutes)))
        ELSE e2

BaseEfficiency(task, slot, pattern) ==
    LET e1 == energy_multiplier[slot.energy_level]
        e2 == RMul(e1, Hundredths(Get(pattern.task_preferences,
                                      task.task_type, 100)))
        e3 == IF slot.duration_minutes < pattern.context_building_time * 2
              THEN LET context_penalty ==
                           Rat(pattern.context_building_time,
                               slot.duration_minutes)
                   IN  RMul(e2, RMax(Rat(1, 2),
                                     RAdd(RInt(1), RMul(RInt(-1),
                                                        context_penalty))))
              ELSE e2
    IN  IF task.requires_deep_focus
           /\ slot.energy_level \in {"PEAK", "HIGH"}
        THEN RMul(e3, Tenths(11))
        ELSE IF task.requires_deep_focus /\ slot.energy_level = "LOW"
             THEN RMul(e3, Tenths(7))
             ELSE e3

_calculate_task_efficiency(task, slot, pattern) ==
    Clamp(BaseEfficiency(task, slot, pattern))

(***************************************************************************)
(* ScheduleBlock and DailySchedule.  A block refers to its task object;    *)
(* the model keeps the fields of the task that are never updated.          *)
(***************************************************************************)
TaskRef(task) ==
    [task_id |-> task.task_id,
     title |-> task.title,
     task_type |-> task.task_type,
     can_be_interrupted |-> task.can_be_interrupted]

\* the block that takes its break after the work as well as before it
ScheduleBlock_breakafter(index, task, slot, efficiency, break_before) ==
    [block_id |-> <<index, slot.start_time>>,
     task |-> TaskRef(task),
     time_slot |-> slot,
     estimated_efficiency |-> efficiency,
     break_before |-> break_before,
     break_after |-> break_before]

ScheduleBlock(index, task, slot, efficiency, break_before) ==
    [block_id |-> <<index, slot.start_time>>,
     task |-> TaskRef(task),
     time_slot |-> slot,
     estimated_efficiency |-> efficiency,
     break_before |-> break_before,
     break_after |-> 0]

effective_duration(block) ==
    RTrunc(RMul(RInt(block.time_slot.duration_minutes),
                block.estimated_efficiency))

\* sum(...) over the first n elements of a sequence of integers / rationals
RECURSIVE SumInt(_, _)
SumInt(seq, n) == IF n = 0 THEN 0 ELSE seq[n] + SumInt(seq, n - 1)

RECURSIVE SumRat(_, _)
SumRat(seq, n) == IF n = 0 THEN RInt(0) ELSE RAdd(SumRat(seq, n - 1), seq[n])

(***************************************************************************)
(* _calculate_schedule_flexibility                                         *)
(***************************************************************************)
\* the factors with nothing granted to a task that cannot be interrupted
BlockFlexibility_rigid(block) ==
    LET interrupt_factor ==
            IF block.task.can_be_interrupted THEN RInt(1) ELSE RInt(0)
        duration_factor ==
            RMax(Rat(1, 2),
                 Rat(flex_duration_base - block.time_slot.duration_minutes,
                     flex_duration_base))
    IN  RAdd(interrupt_factor, duration_factor)

BlockFlexibility(block) ==
    LET interrupt_factor ==
            IF block.task.can_be_interrupted THEN RInt(1) ELSE Rat(1, 2)
        duration_factor ==
            RMax(Rat(1, 2),
                 Rat(flex_duration_base - block.time_slot.duration_minutes,
                     flex_duration_base))
    IN  RAdd(interrupt_factor, duration_factor)

_calculate_schedule_flexibility(blocks) ==
    IF blocks = <<>> THEN RInt(0)
    ELSE RDivInt(SumRat([i \in 1..Len(blocks) |->
                                 BlockFlexibility(blocks[i])], Len(blocks)),
                 2 * Len(blocks))

(***************************************************************************)
(* _allocate_tasks_to_slots: None ({}) or the DailySchedule of the day     *)
(***************************************************************************)
\* every chosen task counts as done with
WorkCoversTask_always(slot, efficiency, task) == TRUE

\* the test with > in place of >=
WorkCoversTask_strict(slot, efficiency, task) ==
    RTrunc(RMul(RInt(slot.duration_minutes), efficiency))
        > remaining_duration(task)

\* the test that marks the chosen task allocated
WorkCoversTask(slot, efficiency, task) ==
    RTrunc(RMul(RInt(slot.duration_minutes), efficiency))
        >= remaining_duration(task)

\* the loop that puts each new block in front of the earlier ones
RECURSIVE AllocLoop_prepend(_, _, _, _, _, _)
AllocLoop_prepend(time_slots, task_list, pattern, at, schedule_blocks, allocated_tasks) ==
    IF time_slots = <<>> THEN schedule_blocks
    ELSE LET slot == Head(time_slots)
             best == _find_best_task_for_slot(slot, task_list,
                                              allocated_tasks, pattern, at)
         IN  IF best = {}
             THEN AllocLoop_prepend(Tail(time_slots), task_list, pattern, at,
                                    schedule_blocks, allocated_tasks)
             ELSE LET best_task == CHOOSE t \in best : TRUE
                      efficiency ==
                          _calculate_task_efficiency(best_task, slot, pattern)
                      block ==
                          ScheduleBlock(Len(schedule_blocks), best_task, slot,
                                        efficiency,
                                        IF schedule_blocks # <<>>
                                        THEN pattern.break_duration ELSE 0)
                  IN  AllocLoop_prepend(Tail(time_slots), task_list, pattern,
                                        at,
                                        <<block>> \o schedule_blocks,
                                        IF WorkCoversTask(slot, efficiency,
                                                          best_task)
                                        THEN allocated_tasks
                                                 \cup {best_task.task_id}
                                        ELSE allocated_tasks)

\* the loop that gives the first block a break before it as well
RECURSIVE AllocLoop_breakfirst(_, _, _, _, _, _)
AllocLoop_breakfirst(time_slots, task_list, pattern, at, schedule_blocks, allocated_tasks) ==
    IF time_slots = <<>> THEN schedule_blocks
    ELSE LET slot == Head(time_slots)
             best == _find_best_task_for_slot(slot, task_list,
                                              allocated_tasks, pattern, at)
         IN  IF best = {}
             THEN AllocLoop_breakfirst(Tail(time_slots), task_list, pattern,
                                       at, schedule_blocks, allocated_tasks)
             ELSE LET best_task == CHOOSE t \in best : TRUE
                      efficiency ==
                          _calculate_task_efficiency(best_task, slot, pattern)
                      block ==
                          ScheduleBlock(Len(schedule_blocks), best_task, slot,
                                        efficiency,
                                        pattern.break_duration)
                  IN  AllocLoop_breakfirst(Tail(time_slots), task_list, pattern,
                                at, Append(schedule_blocks, block),
                                IF WorkCoversTask(slot, efficiency, best_task)
                                THEN allocated_tasks \cup {best_task.task_id}
                                ELSE allocated_tasks)

RECURSIVE AllocLoop(_, _, _, _, _, _)
AllocLoop(time_slots, task_list, pattern, at, schedule_blocks, allocated_tasks) ==
    IF time_slots = <<>> THEN schedule_blocks
    ELSE LET slot == Head(time_slots)
             best == _find_best_task_for_slot(slot, task_list,
                                              allocated_tasks, pattern, at)
         IN  IF best = {}
             THEN AllocLoop(Tail(time_slots), task_list, pattern, at,
                            schedule_blocks, allocated_tasks)
             ELSE LET best_task == CHOOSE t \in best : TRUE
                      efficiency ==
                          _calculate_task_efficiency(best_task, slot, pattern)
                      block ==
                          ScheduleBlock(Len(schedule_blocks), best_task, slot,
                                        efficiency,
                                        IF schedule_blocks # <<>>
                                        THEN pattern.break_duration ELSE 0)
                  IN  AllocLoop(Tail(time_slots), task_list, pattern, at,
                                Append(schedule_blocks, block),
                                IF WorkCoversTask(slot, efficiency, best_task)
                                THEN allocated_tasks \cup {best_task.task_id}
                                ELSE allocated_tasks)

DailySchedule(date, schedule_blocks) ==
    [date |-> date,
     schedule_blocks |-> schedule_blocks,
     total_work_time |-> SumInt([i \in 1..Len(schedule_blocks) |->
                    schedule_blocks[i].time_slot.duration_minutes],
                Len(schedule_blocks)),
     total_break_time |-> SumInt([i \in 1..Len(schedule_blocks) |->
                    schedule_blocks[i].break_before
                    + schedule_blocks[i].break_after],
                Len(schedule_blocks)),
     efficiency_score |->
         RDivInt(SumRat([i \in 1..Len(schedule_blocks) |->
                             schedule_blocks[i].estimated_efficiency],
                         Len(schedule_blocks)),
                 Len(schedule_blocks)),
     flexibility_score |-> _calculate_schedule_flexibility(schedule_blocks)]

\* the allocation that returns a schedule without blocks instead of None
_allocate_tasks_to_slots_keepempty(date, time_slots, task_list, pattern, at) ==
    IF time_slots = <<>> THEN {}
    ELSE LET schedule_blocks ==
                 AllocLoop(time_slots, task_list, pattern, at, <<>>, {})
         IN  IF schedule_blocks = <<>>
             THEN {[date |-> date, schedule_blocks |-> <<>>,
                    total_work_time |-> 0, total_break_time |-> 0,
                    efficiency_score |-> RInt(0),
                    flexibility_score |-> RInt(0)]}
             ELSE {DailySchedule(date, schedule_blocks)}

_allocate_tasks_to_slots(date, time_slots, task_list, pattern, at) ==
    IF time_slots = <<>> THEN {}
    ELSE LET schedule_blocks ==
                 AllocLoop(time_slots, task_list, pattern, at, <<>>, {})
         IN  IF schedule_blocks = <<>> THEN {}
             ELSE {DailySchedule(date, schedule_blocks)}

(***************************************************************************)
(* generate_optimal_schedule: the returned mapping (date -> schedule);     *)
(* every returned schedule is also written to self.schedules.  A date is   *)
(* the day number, which stands for its "%Y-%m-%d" string.                 *)
(***************************************************************************)
DateStr(date) == date \div MinutesPerDay

\* the day loop that drops from the list of a later day the tasks a day
\* has placed
RECURSIVE DayLoop_consume(_, _, _, _, _, _, _)
DayLoop_consume(day, days, current_date, sorted_tasks, pattern, at, result) ==
    IF day >= days THEN result
    ELSE LET day_date == current_date + day * MinutesPerDay
             time_slots == _generate_time_slots(day_date, pattern)
             daily_schedule ==
                 _allocate_tasks_to_slots(day_date, time_slots, sorted_tasks,
                                          pattern, at)
             placed ==
                 UNION {{x.schedule_blocks[k].task.task_id :
                            k \in 1..Len(x.schedule_blocks)} :
                        x \in daily_schedule}
         IN  DayLoop_consume(day + 1, days, current_date,
                             SelectSeq(sorted_tasks,
                                       LAMBDA t : t.task_id \notin placed),
                             pattern, at,
                             IF daily_schedule # {}
                             THEN (DateStr(day_date)
                                      :> (CHOOSE x \in daily_schedule : TRUE))
                                  @@ result
                             ELSE result)

RECURSIVE DayLoop(_, _, _, _, _, _, _)
DayLoop(day, days, current_date, sorted_tasks, pattern, at, result) ==
    IF day >= days THEN result
    ELSE LET day_date == current_date + day * MinutesPerDay
             time_slots == _generate_time_slots(day_date, pattern)
             daily_schedule ==
                 _allocate_tasks_to_slots(day_date, time_slots, sorted_tasks,
                                          pattern, at)
         IN  DayLoop(day + 1, days, current_date, sorted_tasks, pattern, at,
                     IF daily_schedule # {}
                     THEN (DateStr(day_date)
                              :> (CHOOSE s \in daily_schedule : TRUE))
                          @@ result
                     ELSE result)

\* the run that falls back on the pattern of another user
GenerateResult_fallback(patterns, task_list, user_id, start_date, days, at) ==
    IF DOMAIN patterns = {} THEN <<>>
    ELSE LET pattern ==
                 IF user_id \in DOMAIN patterns THEN patterns[user_id]
                 ELSE patterns[CHOOSE u \in DOMAIN patterns : TRUE]
             pending_tasks ==
                 SelectSeq(task_list, LAMBDA t : ~is_completed(t))
         IN  IF pending_tasks = <<>> THEN <<>>
             ELSE DayLoop(0, days, Midnight(start_date),
                          _sort_tasks_by_priority(pending_tasks, at),
                          pattern, at, <<>>)

GenerateResult(patterns, task_list, user_id, start_date, days, at) ==
    IF user_id \notin DOMAIN patterns THEN <<>>
    ELSE LET pattern == patterns[user_id]
             pending_tasks ==
                 SelectSeq(task_list, LAMBDA t : ~is_completed(t))
         IN  IF pending_tasks = <<>> THEN <<>>
             ELSE DayLoop(0, days, Midnight(start_date),
                          _sort_tasks_by_priority(pending_tasks, at),
                          pattern, at, <<>>)

(***************************************************************************)
(* suggest_schedule_adjustments: the list of suggestion records            *)
(***************************************************************************)
\* the checks with the break check made before the workload check
suggest_schedule_adjustments_breaksfirst(store, date_str) ==
    IF date_str \notin DOMAIN store THEN <<>>
    ELSE LET schedule == store[date_str]
             low == SelectSeq(schedule.schedule_blocks,
                              LAMBDA b : RLt(b.estimated_efficiency,
                                             Tenths(efficiency_threshold_tenths)))
             efficiency ==
                 [i \in 1..Len(low) |->
                     [type |-> "efficiency_improvement",
                      block_id |-> low[i].block_id,
                      current_efficiency |-> low[i].estimated_efficiency,
                      priority |-> "medium"]]
             workload ==
                 IF schedule.total_work_time > overload_minutes
                 THEN <<[type |-> "workload_reduction",
                         total_work_time |-> schedule.total_work_time,
                         priority |-> "high"]>>
                 ELSE <<>>
             breaks ==
                 IF RLt(RInt(schedule.total_break_time),
                        RMul(RInt(schedule.total_work_time), Rat(15, 100)))
                 THEN <<[type |-> "break_improvement",
                         current_break_ratio |->
                             Rat(schedule.total_break_time,
                                 schedule.total_work_time),
                         priority |-> "medium"]>>
                 ELSE <<>>
             flexibility ==
                 IF RLt(schedule.flexibility_score, Rat(1, 2))
                 THEN <<[type |-> "flexibility_improvement",
                         flexibility_score |-> schedule.flexibility_score,
                         priority |-> "low"]>>
                 ELSE <<>>
         IN  efficiency \o breaks \o workload \o flexibility

suggest_schedule_adjustments(store, date_str) ==
    IF date_str \notin DOMAIN store THEN <<>>
    ELSE LET schedule == store[date_str]
             low == SelectSeq(schedule.schedule_blocks,
                              LAMBDA b : RLt(b.estimated_efficiency,
                                             Tenths(efficiency_threshold_tenths)))
             efficiency ==
                 [i \in 1..Len(low) |->
                     [type |-> "efficiency_improvement",
                      block_id |-> low[i].block_id,
                      current_efficiency |-> low[i].estimated_efficiency,
                      priority |-> "medium"]]
             workload ==
                 IF schedule.total_work_time > overload_minutes
                 THEN <<[type |-> "workload_reduction",
                         total_work_time |-> schedule.total_work_time,
                         priority |-> "high"]>>
                 ELSE <<>>
             breaks ==
                 IF RLt(RInt(schedule.total_break_time),
                        RMul(RInt(schedule.total_work_time), Rat(15, 100)))
                 THEN <<[type |-> "break_improvement",
                         current_break_ratio |->
                             Rat(schedule.total_break_time,
                                 schedule.total_work_time),
                         priority |-> "medium"]>>
                 ELSE <<>>
             flexibility ==
                 IF RLt(schedule.flexibility_score, Rat(1, 2))
                 THEN <<[type |-> "flexibility_improvement",
                         flexibility_score |-> schedule.flexibility_score,
                         priority |-> "low"]>>
                 ELSE <<>>
         IN  efficiency \o workload \o breaks \o flexibility

(***************************************************************************)
(* export_schedule.  The text is its sequence of lines; a line is the      *)
(* tuple of its label and printed values.  "{x:.1%}" prints x in tenths of *)
(* a percent, rounded half to even; "%H:%M" prints hour and minute.        *)
(***************************************************************************)
FormatPermille(x) ==
    LET n == x[1] * 1000
        d == x[2]
        q == n \div d
        r == n % d
    IN  IF 2 * r < d THEN q
        ELSE IF 2 * r > d THEN q + 1
        ELSE IF q % 2 = 0 THEN q ELSE q + 1

FormatHM(t) == <<HourOf(t), t % MinutesPerHour>>

\* the lines with the effective duration printed as the duration
BlockLines_effective(block) ==
    <<  <<"block", FormatHM(block.time_slot.start_time),
          FormatHM(block.time_slot.end_time), block.task.title>>,
        <<"  Type", block.task.task_type>>,
        <<"  Efficiency", FormatPermille(block.estimated_efficiency)>>,
        <<"  Duration", effective_duration(block)>>,
        <<"">>  >>

BlockLines(block) ==
    <<  <<"block", FormatHM(block.time_slot.start_time),
          FormatHM(block.time_slot.end_time), block.task.title>>,
        <<"  Type", block.task.task_type>>,
        <<"  Efficiency", FormatPermille(block.estimated_efficiency)>>,
        <<"  Duration", block.time_slot.duration_minutes>>,
        <<"">>  >>

RECURSIVE AllBlockLines(_)
AllBlockLines(blocks) ==
    IF blocks = <<>> THEN <<>>
    ELSE BlockLines(Head(blocks)) \o AllBlockLines(Tail(blocks))

export_schedule(store, date_str, format) ==
    IF date_str \notin DOMAIN store THEN [text |-> <<>>]
    ELSE LET schedule == store[date_str]
         IN  IF format = "json" THEN [json |-> schedule]
             ELSE IF format = "text"
             THEN [text |->
                      <<  <<"Schedule for", DateStr(schedule.date)>>,
                          <<"=====">>  >>
                      \o AllBlockLines(schedule.schedule_blocks)
                      \o <<  <<"Total work time", schedule.total_work_time>>,
                             <<"Total break time", schedule.total_break_time>>,
                             <<"Average efficiency",
                               FormatPermille(schedule.efficiency_score)>>  >>]
             ELSE [raised |-> "ValueError"]

(***************************************************************************)
(* Inputs of the model.                                                    *)
(***************************************************************************)
\* the clock at construction: day 10, 08:00
Now0 == 10 * MinutesPerDay + 8 * MinutesPerHour

ResearchTask(task_id, title, task_type, priority, estimated_duration, deadline, requires_deep_focus, can_be_interrupted, preferred_time_of_day) ==
    [task_id |-> task_id,
     title |-> title,
     task_type |-> task_type,
     priority |-> priority,
     estimated_duration |-> estimated_duration,
     deadline |-> deadline,
     requires_deep_focus |-> requires_deep_focus,
     can_be_interrupted |-> can_be_interrupted,
     preferred_time_of_day |-> preferred_time_of_day,
     completed_duration |-> 0,
     completion_ratio |-> 0]

\* tasks a caller adds; one task per id
TaskCatalog ==
    <<ResearchTask("t1", "Draft", "research", "HIGH", 90, {}, TRUE, FALSE,
                   "none"),
      ResearchTask("t2", "Forms", "admin", "LOW", 200,
                   {Now0 - 1}, FALSE, TRUE, "afternoon"),
      ResearchTask("t3", "Stats", "analysis", "HIGH", 20,
                   {Now0 + 36 * MinutesPerHour}, TRUE, FALSE, "none"),
      ResearchTask("t4", "Survey", "research", "HIGH", 90, {}, TRUE, FALSE,
                   "none"),
      ResearchTask("t5", "Sync", "meeting", "LOW", 45,
                   {Now0 + 10 * MinutesPerDay}, FALSE, TRUE, "morning"),
      ResearchTask("t6", "Paper", "writing", "MEDIUM", 200,
                   {Now0 - 3 * MinutesPerDay}, TRUE, FALSE, "morning")>>

TaskIds == {TaskCatalog[i].task_id : i \in 1..Len(TaskCatalog)}

\* a single task of any shape, with or without progress
SingleTasks ==
    {[ResearchTask("t1", "Draft", type, "HIGH", est, {}, deep, FALSE, "none")
         EXCEPT !.completed_duration = done] :
        type \in {"research", "analysis", "meeting", "admin"},
        est \in {20, 30, 90, 200},
        deep \in BOOLEAN,
        done \in {0, MaxCompleted}}

\* the lists of k distinct catalog tasks, in any order
RECURSIVE CatalogLists(_)
CatalogLists(k) ==
    IF k = 0 THEN {<<>>}
    ELSE {Append(l, TaskCatalog[i]) :
             l \in CatalogLists(k - 1),
             i \in 1..Len(TaskCatalog)}

DistinctIds(task_list) ==
    \A i, j \in 1..Len(task_list) :
        i # j => task_list[i].task_id # task_list[j].task_id

PopulatedTaskLists ==
    {<<t>> : t \in SingleTasks}
    \cup {l \in UNION {CatalogLists(k) : k \in 0..MaxTasks} : DistinctIds(l)}

ScenarioEnergy == (9 :> "HIGH") @@ (10 :> "PEAK") @@ (11 :> "PEAK")
AllPeakEnergy == [h \in 0..23 |-> "PEAK"]
CustomPreferences == [research |-> 120, admin |-> 20, meeting |-> 77]

\* keyword arguments by name; "default" is the argument left empty
EnergyNames == {"default", "scenario", "allpeak"}
EnergyArg(name) ==
    CASE name = "default" -> <<>>
      [] name = "scenario" -> ScenarioEnergy
      [] name = "allpeak" -> AllPeakEnergy

PreferenceNames == {"default", "custom"}
PreferencesArg(name) ==
    CASE name = "default" -> <<>>
      [] name = "custom" -> CustomPreferences

PatternArgs(window, focus, break, energy, preferences, context) ==
    [daily_energy |-> EnergyArg(energy),
     task_preferences |-> PreferencesArg(preferences),
     preferred_work_start |-> window[1],
     preferred_work_end |-> window[2],
     focus_duration |-> focus,
     break_duration |-> break,
     context_building_time |-> context]

Windows == {<<540, 720>>, <<780, 900>>}
\* focus_duration, break_duration, context_building_time
Rhythms ==
    {<<default_focus_duration, default_break_duration,
       default_context_building_time>>,
     <<min_task_block_minutes, 0, 2 * default_context_building_time>>}

\* 9:00-12:00, focus 90, break 15, energy {9: HIGH, 10: PEAK, 11: PEAK}
ScenarioArgs ==
    PatternArgs(<<540, 720>>, default_focus_duration, default_break_duration,
                "scenario", "default", default_context_building_time)

\* a work window that ends when it starts: no slot
NoSlotArgs ==
    PatternArgs(<<540, 540>>, default_focus_duration, default_break_duration,
                "default", "default", default_context_building_time)

Users == {"u1", "u2"}
\* the users that register a pattern; the others never do
RegisteredUsers == {"u1"}
StartDates == {Now0}
Formats == {"text", "json", "xml"}
Dates == {DateStr(d) + k : d \in StartDates, k \in 0..MaxDays}


\* the tasks and patterns the lifecycle adds one call at a time
AddableTasks == {TaskCatalog[i] : i \in 1..3}
CreatableArgs == <<ScenarioArgs, NoSlotArgs>>

(***************************************************************************)
(* State after ScheduleOptimizer()                                         *)
(***************************************************************************)
Init ==
    /\ productivity_patterns = <<>>
    /\ tasks = <<>>
    /\ schedules = <<>>
    /\ now = Now0
    /\ ret = [op |-> "__init__"]

(***************************************************************************)
(* An optimizer that already holds one pattern and some tasks              *)
(***************************************************************************)
InitPopulated ==
    /\ \/ \E window \in Windows, rhythm \in Rhythms, energy \in EnergyNames,
             preferences \in PreferenceNames :
             productivity_patterns =
                 "u1" :> ProductivityPattern("u1",
                             PatternArgs(window, rhythm[1], rhythm[2], energy,
                                         preferences, rhythm[3]))
       \/ productivity_patterns =
              "u1" :> ProductivityPattern("u1", NoSlotArgs)
    /\ tasks \in PopulatedTaskLists
    /\ schedules = <<>>
    /\ now = Now0
    /\ ret = [op |-> "__init__"]

(***************************************************************************)
(* Operations                                                              *)
(***************************************************************************)
create_productivity_pattern(user_id, kwargs) ==
    LET pattern == ProductivityPattern(user_id, kwargs)
    IN  /\ productivity_patterns' = (user_id :> pattern) @@ productivity_patterns
        /\ ret' = [op |-> "create_productivity_pattern", value |-> pattern]
        /\ UNCHANGED <<tasks, schedules, now>>

\* self.tasks[task.task_id] = task: a known id keeps its place in the dict
PutTask(task_list, task) ==
    IF \E i \in 1..Len(task_list) : task_list[i].task_id = task.task_id
    THEN [i \in 1..Len(task_list) |->
             IF task_list[i].task_id = task.task_id THEN task
             ELSE task_list[i]]
    ELSE Append(task_list, task)

add_task(task) ==
    /\ Len(PutTask(tasks, task)) <= MaxTasks
    /\ tasks' = PutTask(tasks, task)
    /\ ret' = [op |-> "add_task", value |-> task.task_id]
    /\ UNCHANGED <<productivity_patterns, schedules, now>>

\* the update that stores completed_minutes instead of adding it
UpdatedTask_absolute(task, completed_minutes, completion_ratio) ==
    LET t1 == IF completed_minutes # {}
              THEN [task EXCEPT !.completed_duration =
                        CHOOSE m \in completed_minutes : TRUE]
              ELSE task
    IN  IF completion_ratio # {}
        THEN [t1 EXCEPT !.completion_ratio =
                 CHOOSE r \in completion_ratio : TRUE]
        ELSE t1

UpdatedTask(task, completed_minutes, completion_ratio) ==
    LET t1 == IF completed_minutes # {}
              THEN [task EXCEPT !.completed_duration =
                        @ + (CHOOSE m \in completed_minutes : TRUE)]
              ELSE task
    IN  IF completion_ratio # {}
        THEN [t1 EXCEPT !.completion_ratio =
                 CHOOSE r \in completion_ratio : TRUE]
        ELSE t1

UpdateProgress(task_list, task_id, completed_minutes, completion_ratio) ==
    [i \in 1..Len(task_list) |->
        IF task_list[i].task_id = task_id
        THEN UpdatedTask(task_list[i], completed_minutes, completion_ratio)
        ELSE task_list[i]]

update_task_progress(task_id, completed_minutes, completion_ratio) ==
    /\ \A i \in 1..Len(tasks) :
          tasks[i].task_id = task_id /\ completed_minutes # {} =>
              tasks[i].completed_duration
                  + (CHOOSE m \in completed_minutes : TRUE) <= MaxCompleted
    /\ tasks' = UpdateProgress(tasks, task_id, completed_minutes,
                               completion_ratio)
    /\ ret' = [op |-> "update_task_progress", task_id |-> task_id]
    /\ UNCHANGED <<productivity_patterns, schedules, now>>

\* the run that also marks every task it placed as completed
generate_optimal_schedule_progress(user_id, start_date, days) ==
    LET value == GenerateResult(productivity_patterns, tasks, user_id,
                                start_date, days, now)
    IN  /\ ret' = [op |-> "generate_optimal_schedule", user_id |-> user_id,
                   start_date |-> start_date, days |-> days, value |-> value]
        /\ schedules' = value @@ schedules
        /\ tasks' = [i \in 1..Len(tasks) |->
                        IF \E d \in DOMAIN value :
                               \E k \in 1..Len(value[d].schedule_blocks) :
                                   value[d].schedule_blocks[k].task.task_id
                                       = tasks[i].task_id
                        THEN [tasks[i] EXCEPT !.completion_ratio = 100]
                        ELSE tasks[i]]
        /\ UNCHANGED <<productivity_patterns, now>>

\* the run that keeps in the store only what it returns
generate_optimal_schedule_replace(user_id, start_date, days) ==
    /\ ret' = [op |-> "generate_optimal_schedule", user_id |-> user_id,
               start_date |-> start_date, days |-> days,
               value |-> GenerateResult(productivity_patterns, tasks, user_id,
                                        start_date, days, now)]
    /\ schedules' = ret'.value
    /\ UNCHANGED <<productivity_patterns, tasks, now>>

generate_optimal_schedule(user_id, start_date, days) ==
    /\ ret' = [op |-> "generate_optimal_schedule", user_id |-> user_id,
               start_date |-> start_date, days |-> days,
               value |-> GenerateResult(productivity_patterns, tasks, user_id,
                                        start_date, days, now)]
    \* self.schedules[date_str] = daily_schedule, for every returned date
    /\ schedules' = ret'.value @@ schedules
    /\ UNCHANGED <<productivity_patterns, tasks, now>>

suggest(date_str) ==
    /\ ret' = [op |-> "suggest_schedule_adjustments", date_str |-> date_str,
               value |-> suggest_schedule_adjustments(schedules, date_str)]
    /\ UNCHANGED <<productivity_patterns, tasks, schedules, now>>

export(date_str, format) ==
    /\ ret' = [op |-> "export_schedule", date_str |-> date_str,
               format |-> format,
               value |-> export_schedule(schedules, date_str, format)]
    /\ UNCHANGED <<productivity_patterns, tasks, schedules, now>>

\* the ResearchTask.urgency_score property of a task
read_urgency_score(task) ==
    /\ ret' = [op |-> "urgency_score", task |-> task, at |-> now,
               value |-> urgency_score(task, now)]
    /\ UNCHANGED <<productivity_patterns, tasks, schedules, now>>

\* _sort_tasks_by_priority for a list of tasks
sort_tasks_by_priority(task_list) ==
    /\ ret' = [op |-> "_sort_tasks_by_priority", task_list |-> task_list,
               at |-> now, value |-> _sort_tasks_by_priority(task_list, now)]
    /\ UNCHANGED <<productivity_patterns, tasks, schedules, now>>

\* _generate_time_slots for a day and a pattern
generate_time_slots(date, pattern) ==
    /\ ret' = [op |-> "_generate_time_slots", date |-> date,
               pattern |-> pattern,
               value |-> _generate_time_slots(date, pattern)]
    /\ UNCHANGED <<productivity_patterns, tasks, schedules, now>>

CreatePattern ==
    \E user_id \in RegisteredUsers, k \in 1..Len(CreatableArgs) :
        create_productivity_pattern(user_id, CreatableArgs[k])

AddTask == \E task \in AddableTasks : add_task(task)

UpdateTask ==
    \E task_id \in {t.task_id : t \in AddableTasks} \cup {"t0"},
       completed_minutes \in {{}, {MaxCompleted}},
       completion_ratio \in {{}, {100}} :
        update_task_progress(task_id, completed_minutes, completion_ratio)

Generate ==
    \E user_id \in Users, start_date \in StartDates, days \in 0..MaxDays :
        generate_optimal_schedule(user_id, start_date, days)

Suggest == \E date_str \in Dates : suggest(date_str)

Export == \E date_str \in Dates, format \in Formats : export(date_str, format)

\* the lifecycle of one optimizer, from construction
Next ==
    \/ CreatePattern
    \/ AddTask
    \/ UpdateTask
    \/ Generate
    \/ Suggest
    \/ Export

Spec == Init /\ [][Next]_vars

\* runs on a populated optimizer, and the text export of what they store
Run == generate_optimal_schedule("u1", Now0, MaxDays)

ExportText == \E date_str \in DOMAIN schedules : export(date_str, "text")

NextRun ==
    \/ Run
    \/ ExportText

SpecRun == InitPopulated /\ [][NextRun]_vars

(***************************************************************************)
(* The pure functions on their own, over wider inputs: the initial state   *)
(* holds the arguments of one pending call, the action makes the call.     *)
(***************************************************************************)
\* deadlines from long past to far ahead, around each step of the score
DeadlineOffsets ==
    {-20 * MinutesPerDay, -3 * MinutesPerDay - 1, -MinutesPerDay,
     -MinutesPerDay + 1, -1, 0, 1, MinutesPerDay - 1, MinutesPerDay,
     2 * MinutesPerDay - 1, 2 * MinutesPerDay, 4 * MinutesPerDay - 1,
     4 * MinutesPerDay, 8 * MinutesPerDay - 1, 8 * MinutesPerDay,
     30 * MinutesPerDay}

WorkStarts == {0, 540, 600, 1320}
WorkLengths == {-60, 0, 29, 30, 45, 90, 105, 119, 180, 240}
WideWindows ==
    {w \in {<<start, start + length>> :
                start \in WorkStarts, length \in WorkLengths} :
        w[2] \in 0..(MinutesPerDay - 1)}
WideFocus == {1, 29, 30, 45, 90, 200}
WideBreaks == {0, 1, 15, 60}

\* the catalog tasks, fresh or with MaxCompleted minutes done
SortableTasks ==
    {[TaskCatalog[i] EXCEPT !.completed_duration = done] :
        i \in 1..Len(TaskCatalog), done \in {0, MaxCompleted}}

\* the lists of k sortable tasks, in any order
RECURSIVE SortableLists(_)
SortableLists(k) ==
    IF k = 0 THEN {<<>>}
    ELSE {Append(l, t) : l \in SortableLists(k - 1), t \in SortableTasks}

PendingCalls ==
    {[op |-> "pending", call |-> "urgency_score",
      task |-> ResearchTask("t1", "Draft", "research", priority,
                            default_focus_duration, deadline, TRUE, FALSE,
                            "none")] :
        priority \in DOMAIN TaskPriority,
        deadline \in {{}} \cup {{Now0 + o} : o \in DeadlineOffsets}}
    \cup
    {[op |-> "pending", call |-> "_generate_time_slots", date |-> Now0,
      pattern |-> ProductivityPattern("u1",
                      PatternArgs(window, focus, break, energy, "default",
                                  default_context_building_time))] :
        window \in WideWindows,
        focus \in WideFocus, break \in WideBreaks, energy \in EnergyNames}
    \cup
    {[op |-> "pending", call |-> "_sort_tasks_by_priority",
      task_list |-> l] :
        l \in {l \in UNION {SortableLists(k) : k \in 0..MaxSorted} :
                  DistinctIds(l)}}

InitPure ==
    /\ productivity_patterns = <<>>
    /\ tasks = <<>>
    /\ schedules = <<>>
    /\ now = Now0
    /\ ret \in PendingCalls

ReadUrgency ==
    /\ ret.op = "pending"
    /\ ret.call = "urgency_score"
    /\ read_urgency_score(ret.task)

GenerateSlots ==
    /\ ret.op = "pending"
    /\ ret.call = "_generate_time_slots"
    /\ generate_time_slots(ret.date, ret.pattern)

SortTasks ==
    /\ ret.op = "pending"
    /\ ret.call = "_sort_tasks_by_priority"
    /\ sort_tasks_by_priority(ret.task_list)

NextPure ==
    \/ ReadUrgency
    \/ GenerateSlots
    \/ SortTasks

SpecPure == InitPure /\ [][NextPure]_vars

(***************************************************************************)
(* Progress updates on their own, over wider arguments: deltas that add    *)
(* up, ratios below, at and above 1.0, an id that is not held.             *)
(***************************************************************************)
ProgressTaskLists ==
    {<<>>} \cup {<<t>> : t \in AddableTasks}
    \cup {l \in {<<a, b>> : a \in AddableTasks, b \in AddableTasks} :
             DistinctIds(l)}

ProgressIds == {t.task_id : t \in AddableTasks} \cup {"t0"}
\* completed_minutes and completion_ratio; {} is the argument left at None
ProgressMinutes == {{}, {0}, {25}, {MaxCompleted}}
ProgressRatios == {{}, {0}, {50}, {100}, {120}}

InitProgress ==
    /\ productivity_patterns = <<>>
    /\ tasks \in ProgressTaskLists
    /\ schedules = <<>>
    /\ now = Now0
    /\ ret = [op |-> "__init__"]

UpdateTaskWide ==
    \E task_id \in ProgressIds, completed_minutes \in ProgressMinutes,
       completion_ratio \in ProgressRatios :
        update_task_progress(task_id, completed_minutes, completion_ratio)

NextProgress == UpdateTaskWide

SpecProgress == InitProgress /\ [][NextProgress]_vars

(***************************************************************************)
(* TemplateManager.validate_template.  Dictionaries and lists are objects  *)
(* of a heap, named by references, so that a copy that shares the features *)
(* list with its original is told apart from a deep one.                   *)
(***************************************************************************)
\* self.complexity_levels[level]["max_time"]
complexity_levels == [simple |-> 10, medium |-> 15, advanced |-> 20]

\* list[:n]
Prefix(list, n) == SubSeq(list, 1, Min(n, Len(list)))

\* the name bound to the adjusted template when no copy is taken
CopyOf_alias(reference) == reference

\* the object made by template_info.copy(): a new dictionary
CopyOf(reference) == "adjusted_template"

\* the heap and the result after validate_template(template_info, limit)
validate_template(heap, template_info, time_limit) ==
    LET template == heap[template_info]
        adjusted == CopyOf(template_info)
        \* the shallow copy: the same values, the same features list
        copied == (adjusted :> template) @@ heap
        over == template.time_estimate > time_limit
        sliced ==
            IF ~over \/ time_limit > 10 THEN copied
            ELSE LET kept == IF time_limit <= 5 THEN 2 ELSE 3
                 IN  \* a slice is a new list, bound in the copy only
                     [(("sliced_features" :>
                            Prefix(copied[copied[adjusted].features], kept))
                       @@ copied)
                         EXCEPT ![adjusted].complexity = "simple",
                                ![adjusted].features = "sliced_features"]
        levelled ==
            IF over /\ time_limit > 10 /\ time_limit <= 15
            THEN [sliced EXCEPT ![adjusted].complexity = "medium"]
            ELSE sliced
        capped ==
            IF over
            THEN [levelled EXCEPT ![adjusted].time_estimate =
                      Min(levelled[adjusted].time_estimate, time_limit)]
            ELSE levelled
        \* the checks read the heap after the adjustments
        final == capped[template_info]
        time_warning ==
            IF over
            THEN << <<"time_estimate", template.time_estimate, time_limit>> >>
            ELSE <<>>
        level_warning ==
            IF /\ final.complexity \in DOMAIN complexity_levels
               /\ final.time_estimate > complexity_levels[final.complexity]
            THEN << <<"complexity", final.complexity>> >>
            ELSE <<>>
    IN  [heap |-> capped,
         value |-> [valid |-> TRUE,
                    warnings |-> time_warning \o level_warning,
                    adjusted_template |-> adjusted]]

TemplateFeatures == <<"f1", "f2", "f3", "f4">>
TemplateTimes == {0, 5, 6, 10, 11, 15, 16, 20, 25}
TimeLimits == {-1, 0, 5, 6, 10, 11, 15, 16, 30}

\* a template dictionary and its features list, as the caller holds them
TemplateHeap(complexity, time_estimate, n_features) ==
    ("template_info" :>
         [name |-> "template", type |-> "web", complexity |-> complexity,
          time_estimate |-> time_estimate, features |-> "features"])
    @@ ("features" :> Prefix(TemplateFeatures, n_features))

TemplateCalls ==
    {[op |-> "pending", call |-> "validate_template",
      heap |-> TemplateHeap(complexity, time_estimate, n_features),
      template_info |-> "template_info", time_limit |-> time_limit] :
        complexity \in DOMAIN complexity_levels \cup {"expert"},
        time_estimate \in TemplateTimes,
        n_features \in 0..Len(TemplateFeatures),
        time_limit \in TimeLimits}

InitTemplate ==
    /\ productivity_patterns = <<>>
    /\ tasks = <<>>
    /\ schedules = <<>>
    /\ now = Now0
    /\ ret \in TemplateCalls

ValidateTemplate ==
    /\ ret.op = "pending"
    /\ ret.call = "validate_template"
    /\ LET result == validate_template(ret.heap, ret.template_info,
                                       ret.time_limit)
       IN  ret' = [op |-> "validate_template",
                   template_info |-> ret.template_info,
                   time_limit |-> ret.time_limit,
                   heap_before |-> ret.heap,
                   heap |-> result.heap,
                   value |-> result.value]
    /\ UNCHANGED <<productivity_patterns, tasks, schedules, now>>

NextTemplate == ValidateTemplate

SpecTemplate == InitTemplate /\ [][NextTemplate]_vars

(***************************************************************************)
(* generate_optimal_schedule one loop turn at a time.  ret holds the frame *)
(* of the call: where it stands (pc), the day, and the locals of           *)
(* _generate_time_slots.                                                   *)
(***************************************************************************)
\* entry of the call, up to the first test of the day loop
EnterRun(patterns, task_list, user_id, start_date, days, at) ==
    IF user_id \notin DOMAIN patterns
    THEN [op |-> "generate_optimal_schedule", user_id |-> user_id,
          start_date |-> start_date, days |-> days, value |-> <<>>]
    ELSE LET pending_tasks ==
                 SelectSeq(task_list, LAMBDA t : ~is_completed(t))
         IN  IF pending_tasks = <<>>
             THEN [op |-> "generate_optimal_schedule", user_id |-> user_id,
                   start_date |-> start_date, days |-> days, value |-> <<>>]
             ELSE [op |-> "running", pc |-> "for_day", user_id |-> user_id,
                   start_date |-> start_date, days |-> days,
                   pattern |-> patterns[user_id],
                   sorted_tasks |->
                       _sort_tasks_by_priority(pending_tasks, at),
                   current_date |-> Midnight(start_date),
                   day |-> 0, day_date |-> 0, work_end |-> 0,
                   current_time |-> 0, slots |-> <<>>, schedules |-> <<>>]

\* the test of `for day in range(days)`: the next day, or the return
ForDay(frame) ==
    IF frame.day >= frame.days
    THEN [op |-> "generate_optimal_schedule", user_id |-> frame.user_id,
          start_date |-> frame.start_date, days |-> frame.days,
          value |-> frame.schedules]
    ELSE LET day_date == frame.current_date + frame.day * MinutesPerDay
         IN  [frame EXCEPT
                 !.pc = "while_slot",
                 !.day_date = day_date,
                 !.current_time =
                     Midnight(day_date) + frame.pattern.preferred_work_start,
                 !.work_end =
                     Midnight(day_date) + frame.pattern.preferred_work_end,
                 !.slots = <<>>]

\* a turn of the while loop that leaves its frame as it found it
WhileSlot_stuck(frame) == frame

\* one test of `while current_time < work_end` and the turn it starts
WhileSlot(frame) ==
    IF ~(frame.current_time < frame.work_end)
    THEN [frame EXCEPT !.pc = "allocate"]
    ELSE LET remaining_minutes == frame.work_end - frame.current_time
             slot_duration ==
                 Min(frame.pattern.focus_duration, remaining_minutes)
         IN  IF slot_duration < min_task_block_minutes
             THEN [frame EXCEPT !.pc = "allocate"]
             ELSE LET slot_end == frame.current_time + slot_duration
                      energy_level ==
                          Get(frame.pattern.daily_energy,
                              HourOf(frame.current_time), "MEDIUM")
                      slot == TimeSlot(frame.current_time, slot_end,
                                       slot_duration, energy_level)
                  IN  [frame EXCEPT
                          !.slots = Append(@, slot),
                          !.current_time =
                              slot_end + frame.pattern.break_duration]

\* the rest of the day: allocation, and the schedule kept if there is one
AllocateDay(frame, at) ==
    LET daily_schedule ==
            _allocate_tasks_to_slots(frame.day_date, frame.slots,
                                     frame.sorted_tasks, frame.pattern, at)
    IN  [frame EXCEPT
            !.pc = "for_day",
            !.day = @ + 1,
            !.schedules =
                IF daily_schedule # {}
                THEN (DateStr(frame.day_date)
                         :> (CHOOSE x \in daily_schedule : TRUE)) @@ @
                ELSE @]

LoopTaskLists == {<<>>, <<TaskCatalog[1], TaskCatalog[2]>>}

InitLoop ==
    /\ \E window \in WideWindows, focus \in WideFocus, break \in WideBreaks :
           productivity_patterns =
               "u1" :> ProductivityPattern("u1",
                           PatternArgs(window, focus, break, "default",
                                       "default",
                                       default_context_building_time))
    /\ tasks \in LoopTaskLists
    /\ schedules = <<>>
    /\ now = Now0
    /\ ret \in {[op |-> "call", user_id |-> user_id, start_date |-> Now0,
                 days |-> days] :
                   user_id \in Users, days \in 0..MaxDays}

Enter ==
    /\ ret.op = "call"
    /\ ret' = EnterRun(productivity_patterns, tasks, ret.user_id,
                       ret.start_date, ret.days, now)
    /\ UNCHANGED <<productivity_patterns, tasks, schedules, now>>

DayTest ==
    /\ ret.op = "running"
    /\ ret.pc = "for_day"
    /\ ret' = ForDay(ret)
    /\ UNCHANGED <<productivity_patterns, tasks, schedules, now>>

SlotTurn ==
    /\ ret.op = "running"
    /\ ret.pc = "while_slot"
    /\ ret' = WhileSlot(ret)
    /\ UNCHANGED <<productivity_patterns, tasks, schedules, now>>

Allocate ==
    /\ ret.op = "running"
    /\ ret.pc = "allocate"
    /\ ret' = AllocateDay(ret, now)
    \* self.schedules[date_str] = daily_schedule
    /\ schedules' = ret'.schedules @@ schedules
    /\ UNCHANGED <<productivity_patterns, tasks, now>>

NextLoop ==
    \/ Enter
    \/ DayTest
    \/ SlotTurn
    \/ Allocate

\* the interpreter runs the call on: no step of it waits for anything
SpecLoop == InitLoop /\ [][NextLoop]_vars /\ WF_vars(NextLoop)

(***************************************************************************)
(* Runs and the suggestions read from what they store, on an optimizer     *)
(* whose work hours are three or twelve hours long.                        *)
(***************************************************************************)
LongWindows == {<<540, 720>>, <<480, 1200>>}
\* focus_duration, break_duration, context_building_time
BreakRhythms ==
    {<<default_focus_duration, default_break_duration,
       default_context_building_time>>,
     <<default_focus_duration \div 2, 0, default_context_building_time>>,
     <<2 * default_focus_duration, 4 * default_break_duration,
       default_context_building_time>>}

InitSuggest ==
    /\ \E window \in LongWindows, rhythm \in BreakRhythms,
          energy \in EnergyNames, preferences \in PreferenceNames :
           productivity_patterns =
               "u1" :> ProductivityPattern("u1",
                           PatternArgs(window, rhythm[1], rhythm[2], energy,
                                       preferences, rhythm[3]))
    /\ tasks \in PopulatedTaskLists
    /\ schedules = <<>>
    /\ now = Now0
    /\ ret = [op |-> "__init__"]

RunDays == \E days \in {1, MaxDays} : generate_optimal_schedule("u1", Now0, days)

NextSuggest ==
    \/ RunDays
    \/ Suggest

SpecSuggest == InitSuggest /\ [][NextSuggest]_vars

(***************************************************************************)
(* Properties                                                              *)
(***************************************************************************)
IsRun == ret.op = "generate_optimal_schedule"

\* the schedules of the last run, and every schedule returned or stored
ReturnedSchedules ==
    IF IsRun THEN {ret.value[d] : d \in DOMAIN ret.value} ELSE {}

StoredSchedules == {schedules[d] : d \in DOMAIN schedules}

AllSchedules == ReturnedSchedules \cup StoredSchedules

\* the dates a run covers
RunDates == {DateStr(ret.start_date) + k : k \in 0..(ret.days - 1)}

\* the held task of an id
HeldTask(task_id) ==
    tasks[CHOOSE i \in 1..Len(tasks) : tasks[i].task_id = task_id]

\* the one held task is fresh and pending
SingleFreshTask ==
    /\ Len(tasks) = 1
    /\ tasks[1].completed_duration = 0
    /\ tasks[1].completion_ratio = 0

\* C1 as stated: in every generated schedule, no task id appears in more
\* than one block.
C1_NoTaskInTwoBlocks ==
    \A s \in AllSchedules :
        \A i, j \in 1..Len(s.schedule_blocks) :
            i # j => s.schedule_blocks[i].task.task_id
                         # s.schedule_blocks[j].task.task_id

\* C1 amended: a task appears in no block after a block of the same schedule
\* whose int(slot duration x efficiency) reaches the task's remaining
\* duration; a task whose block does not reach it may be placed again.
C1_NoTaskAfterCoveringBlock ==
    IsRun =>
        \A s \in ReturnedSchedules :
            \A i, j \in 1..Len(s.schedule_blocks) :
                /\ i < j
                /\ effective_duration(s.schedule_blocks[i])
                       >= remaining_duration(
                              HeldTask(s.schedule_blocks[i].task.task_id))
                => s.schedule_blocks[j].task.task_id
                       # s.schedule_blocks[i].task.task_id

\* a run in which a block covers its task and a later block holds another
C1_Witness ==
    /\ IsRun
    /\ \E s \in ReturnedSchedules :
           \E i, j \in 1..Len(s.schedule_blocks) :
               /\ i < j
               /\ effective_duration(s.schedule_blocks[i])
                      >= remaining_duration(
                             HeldTask(s.schedule_blocks[i].task.task_id))
               /\ s.schedule_blocks[j].task.task_id
                      # s.schedule_blocks[i].task.task_id

\* C2: every block of every generated schedule has
\* 0.3 <= estimated_efficiency <= 1.0.
C2_EfficiencyClamped ==
    \A s \in AllSchedules :
        \A i \in 1..Len(s.schedule_blocks) :
            /\ RLe(Rat(3, 10), s.schedule_blocks[i].estimated_efficiency)
            /\ RLe(s.schedule_blocks[i].estimated_efficiency, RInt(1))

\* a run with a block clamped at 0.3 and a block clamped at 1.0
C2_Witness ==
    /\ IsRun
    /\ \E s \in ReturnedSchedules :
           \E i, j \in 1..Len(s.schedule_blocks) :
               /\ s.schedule_blocks[i].estimated_efficiency = Rat(3, 10)
               /\ RLt(BaseEfficiency(
                          HeldTask(s.schedule_blocks[i].task.task_id),
                          s.schedule_blocks[i].time_slot,
                          productivity_patterns[ret.user_id]),
                      Rat(3, 10))
               /\ s.schedule_blocks[j].estimated_efficiency = RInt(1)

\* the scenario of C4: work hours 9:00-12:00, focus 90, break 15, energy
\* {9: HIGH, 10: PEAK, 11: PEAK}, one pending task of 90 minutes that needs
\* deep focus, priority HIGH, no deadline, any type and type preference
C4_Scenario ==
    /\ IsRun
    /\ ret.days >= 1
    /\ ret.user_id \in DOMAIN productivity_patterns
    /\ LET pattern == productivity_patterns[ret.user_id]
       IN  /\ pattern.preferred_work_start = 9 * MinutesPerHour
           /\ pattern.preferred_work_end = 12 * MinutesPerHour
           /\ pattern.focus_duration = 90
           /\ pattern.break_duration = 15
           /\ pattern.daily_energy = ScenarioEnergy
    /\ SingleFreshTask
    /\ tasks[1].estimated_duration = 90
    /\ tasks[1].requires_deep_focus
    /\ tasks[1].priority = "HIGH"
    /\ tasks[1].deadline = {}

\* C4 as stated: in the scenario the schedule of a day has exactly one
\* block, and it starts at 9:00.
C4_OneBlockAtNine ==
    C4_Scenario =>
        \A d \in RunDates :
            /\ d \in DOMAIN ret.value
            /\ Len(ret.value[d].schedule_blocks) = 1
            /\ ret.value[d].schedule_blocks[1].time_slot.start_time
                   = d * MinutesPerDay + 9 * MinutesPerHour

\* C4 amended: in the scenario the first block holds the task and starts at
\* 9:00; it is the only block exactly when 1.1 x type preference >= 1.0
\* (the block's efficiency is 1.0, so its 90 minutes cover the task);
\* otherwise a second block holds the same task from 10:45.
C4_FirstBlockAtNine ==
    C4_Scenario =>
        \A d \in RunDates :
            /\ d \in DOMAIN ret.value
            /\ LET blocks == ret.value[d].schedule_blocks
                   preference ==
                       Get(productivity_patterns[ret.user_id].task_preferences,
                           tasks[1].task_type, 100)
               IN  /\ blocks[1].task.task_id = tasks[1].task_id
                   /\ blocks[1].time_slot.start_time
                          = d * MinutesPerDay + 9 * MinutesPerHour
                   /\ (Len(blocks) = 1) <=> (11 * preference >= 1000)
                   /\ Len(blocks) # 1 =>
                          /\ Len(blocks) = 2
                          /\ blocks[2].task.task_id = tasks[1].task_id
                          /\ blocks[2].time_slot.start_time
                                 = d * MinutesPerDay + 10 * MinutesPerHour + 45

\* the scenario with a task type of preference 1.0: one block
C4_Witness ==
    /\ C4_Scenario
    /\ Get(productivity_patterns[ret.user_id].task_preferences,
           tasks[1].task_type, 100) = 100
    /\ \A d \in RunDates : Len(ret.value[d].schedule_blocks) = 1

\* the case of C5: every hour PEAK, one pending deep-focus task whose
\* estimated duration is between the minimum block size and the duration
\* of a slot
C5_Case ==
    /\ IsRun
    /\ ret.days >= 1
    /\ ret.user_id \in DOMAIN productivity_patterns
    /\ \A h \in 0..23 :
           Get(productivity_patterns[ret.user_id].daily_energy, h, "MEDIUM")
               = "PEAK"
    /\ SingleFreshTask
    /\ tasks[1].requires_deep_focus
    /\ tasks[1].estimated_duration >= min_task_block_minutes
    /\ LET slots == _generate_time_slots(ret.start_date,
                                         productivity_patterns[ret.user_id])
       IN  /\ slots # <<>>
           /\ tasks[1].estimated_duration <= slots[1].duration_minutes

\* the first block of day d is the task in the earliest slot of the day
C5_FirstBlockEarliest(d) ==
    /\ d \in DOMAIN ret.value
    /\ ret.value[d].schedule_blocks[1].task.task_id = tasks[1].task_id
    /\ ret.value[d].schedule_blocks[1].time_slot.start_time
           = d * MinutesPerDay
             + productivity_patterns[ret.user_id].preferred_work_start

\* C5 as stated: the first block is the task in the earliest slot, the
\* efficiency of the pairing is at least 1.0 before clamping and the
\* block's estimated_efficiency is 1.0.
C5_PeakEfficiencyOne ==
    C5_Case =>
        \A d \in RunDates :
            /\ C5_FirstBlockEarliest(d)
            /\ RLe(RInt(1),
                   BaseEfficiency(tasks[1],
                                  ret.value[d].schedule_blocks[1].time_slot,
                                  productivity_patterns[ret.user_id]))
            /\ ret.value[d].schedule_blocks[1].estimated_efficiency = RInt(1)

\* 1.2 x 1.1 x type preference, halved in a slot shorter than twice the
\* context building time: the efficiency of C5's pairing before clamping
C5_Product(d) ==
    LET pattern == productivity_patterns[ret.user_id]
        slot == ret.value[d].schedule_blocks[1].time_slot
        preference == Get(pattern.task_preferences, tasks[1].task_type, 100)
    IN  IF slot.duration_minutes < 2 * pattern.context_building_time
        THEN Rat(132 * preference, 20000)
        ELSE Rat(132 * preference, 10000)

\* C5 amended: the first block is the task in the earliest slot; its
\* estimated_efficiency is the product 1.2 x 1.1 x type preference (x 0.5
\* under the context penalty) clamped to [0.3, 1.0], so it is 1.0 exactly
\* when that product is at least 1.0 and lower for a lower type preference.
C5_PeakEfficiencyProduct ==
    C5_Case =>
        \A d \in RunDates :
            /\ C5_FirstBlockEarliest(d)
            /\ LET efficiency ==
                       ret.value[d].schedule_blocks[1].estimated_efficiency
               IN  /\ (efficiency = RInt(1)) <=> RLe(RInt(1), C5_Product(d))
                   /\ RLt(C5_Product(d), RInt(1)) =>
                          efficiency = RMax(Rat(3, 10), C5_Product(d))

\* the case with a product of at least 1.0: the block's efficiency is 1.0
C5_Witness ==
    /\ C5_Case
    /\ \A d \in RunDates :
           /\ RLe(RInt(1), C5_Product(d))
           /\ ret.value[d].schedule_blocks[1].estimated_efficiency = RInt(1)

\* C3: the slots returned by _generate_time_slots are in strict
\* chronological order and do not overlap: each slot starts before it ends,
\* and ends no later than every later slot starts.
C3_SlotsOrdered ==
    ret.op = "_generate_time_slots" =>
        \A i, j \in 1..Len(ret.value) :
            /\ ret.value[i].start_time < ret.value[i].end_time
            /\ i < j => /\ ret.value[i].end_time <= ret.value[j].start_time
                        /\ ret.value[i].start_time < ret.value[j].start_time

\* three slots or more, back to back (break_duration = 0)
C3_Witness ==
    /\ ret.op = "_generate_time_slots"
    /\ Len(ret.value) >= 3
    /\ ret.pattern.break_duration = 0
    /\ ret.value[1].end_time = ret.value[2].start_time

\* C6: with no pending task (no task, or every task at completion_ratio
\* >= 1.0) a run returns the empty mapping and stores no schedule, for
\* every user, start date and number of days.
C6_NoPendingNoSchedule ==
    [][(/\ ret'.op = "generate_optimal_schedule"
        /\ \A i \in 1..Len(tasks) : tasks[i].completion_ratio >= 100)
       => /\ ret'.value = <<>>
          /\ schedules' = schedules]_vars

\* a run for a registered user with slots, over a day or more, when every
\* held task is completed but still has work remaining
C6_Witness ==
    /\ IsRun
    /\ ret.days >= 1
    /\ ret.user_id \in DOMAIN productivity_patterns
    /\ _generate_time_slots(ret.start_date,
                            productivity_patterns[ret.user_id]) # <<>>
    /\ tasks # <<>>
    /\ \A i \in 1..Len(tasks) :
           /\ tasks[i].completion_ratio >= 100
           /\ remaining_duration(tasks[i]) >= min_task_block_minutes
    /\ ret.value = <<>>

\* C7: a run for a user without a registered pattern returns the empty
\* mapping and leaves tasks, patterns and stored schedules unchanged.
C7_UnknownUserNoEffect ==
    [][(/\ ret'.op = "generate_optimal_schedule"
        /\ ret'.user_id \notin DOMAIN productivity_patterns)
       => /\ ret'.value = <<>>
          /\ UNCHANGED <<tasks, productivity_patterns, schedules>>]_vars

\* such a run while another user has a pattern with slots and a task waits
C7_Witness ==
    /\ IsRun
    /\ ret.days >= 1
    /\ ret.user_id \notin DOMAIN productivity_patterns
    /\ \E u \in DOMAIN productivity_patterns :
           _generate_time_slots(ret.start_date, productivity_patterns[u])
               # <<>>
    /\ \E i \in 1..Len(tasks) :
           /\ tasks[i].completion_ratio < 100
           /\ remaining_duration(tasks[i]) >= min_task_block_minutes
    /\ ret.value = <<>>

\* C8: a date of the run is a key of the returned mapping exactly when the
\* day has a slot and a pending task of at least the minimum block size
\* (a block was produced); the keys are dates of the run, and every schedule
\* returned or stored has at least one block.
C8_DateIffBlocks ==
    /\ \A s \in AllSchedules : Len(s.schedule_blocks) >= 1
    /\ IsRun /\ ret.user_id \in DOMAIN productivity_patterns =>
           /\ DOMAIN ret.value \subseteq RunDates
           /\ \A d \in RunDates :
                  d \in DOMAIN ret.value
                  <=> /\ _generate_time_slots(
                             d * MinutesPerDay,
                             productivity_patterns[ret.user_id]) # <<>>
                      /\ \E i \in 1..Len(tasks) :
                             /\ tasks[i].completion_ratio < 100
                             /\ remaining_duration(tasks[i])
                                    >= min_task_block_minutes

\* a run over days that have slots, with a pending task that is too short
\* for a block: every day is omitted
C8_Witness ==
    /\ IsRun
    /\ ret.days >= 1
    /\ ret.user_id \in DOMAIN productivity_patterns
    /\ _generate_time_slots(ret.start_date,
                            productivity_patterns[ret.user_id]) # <<>>
    /\ \E i \in 1..Len(tasks) : tasks[i].completion_ratio < 100
    /\ ret.value = <<>>
    /\ schedules # <<>>

\* C9: a task whose deadline lies in the past has urgency_score 10.0,
\* whatever the distance and the priority.
C9_PastDeadlineUrgency ==
    (/\ ret.op = "urgency_score"
     /\ \E d \in ret.task.deadline : d < ret.at)
    => ret.value = 10

\* the score of a task of the lowest priority, one minute past its deadline
C9_Witness ==
    /\ ret.op = "urgency_score"
    /\ ret.task.deadline = {ret.at - 1}
    /\ ret.task.priority = "OPTIONAL"
    /\ ret.value = 10

\* the numbers printed on the lines of a label, in order
PrintedNumbers(lines, label) ==
    LET found == SelectSeq(lines, LAMBDA l : l[1] = label)
    IN  [i \in 1..Len(found) |-> found[i][2]]

\* C10: in the text export of a stored schedule the printed durations sum
\* to total_work_time, and the mean of the printed efficiencies is within
\* 0.1 percentage point of efficiency_score.
C10_TextRoundTrip ==
    (/\ ret.op = "export_schedule"
     /\ ret.format = "text"
     /\ ret.date_str \in DOMAIN schedules)
    => LET durations == PrintedNumbers(ret.value.text, "  Duration")
           efficiencies == PrintedNumbers(ret.value.text, "  Efficiency")
           schedule == schedules[ret.date_str]
           difference ==
               RAdd(Rat(SumInt(efficiencies, Len(efficiencies)),
                        1000 * Len(efficiencies)),
                    RMul(RInt(-1), schedule.efficiency_score))
       IN  /\ Len(durations) = Len(schedule.schedule_blocks)
           /\ SumInt(durations, Len(durations)) = schedule.total_work_time
           /\ RLe(difference, Rat(1, 1000))
           /\ RLe(Rat(-1, 1000), difference)

\* the export of a schedule of two blocks or more, one of them with an
\* efficiency that the print rounds
C10_Witness ==
    /\ ret.op = "export_schedule"
    /\ ret.format = "text"
    /\ ret.date_str \in DOMAIN schedules
    /\ Len(schedules[ret.date_str].schedule_blocks) >= 2
    /\ \E i \in 1..Len(schedules[ret.date_str].schedule_blocks) :
           1000 % schedules[ret.date_str].schedule_blocks[i]
                      .estimated_efficiency[2] # 0

\* the value of an optional argument, or a default when it is None
OrElse(optional, default) ==
    IF optional = {} THEN default ELSE CHOOSE x \in optional : TRUE

\* C11: update_task_progress on a held task adds completed_minutes to
\* completed_duration and sets completion_ratio to the given value, each
\* only when supplied and independently of the other, and touches no other
\* field and no other task; on an id that is not held it changes no task.
C11_ProgressUpdate ==
    [][\A task_id \in ProgressIds, completed_minutes \in ProgressMinutes,
          completion_ratio \in ProgressRatios :
           update_task_progress(task_id, completed_minutes,
                                completion_ratio)
           => /\ Len(tasks') = Len(tasks)
              /\ \A i \in 1..Len(tasks) :
                     IF tasks[i].task_id = task_id
                     THEN /\ tasks'[i].completed_duration =
                                 tasks[i].completed_duration
                                     + OrElse(completed_minutes, 0)
                          /\ tasks'[i].completion_ratio =
                                 OrElse(completion_ratio,
                                        tasks[i].completion_ratio)
                          /\ [tasks'[i] EXCEPT !.completed_duration = 0,
                                               !.completion_ratio = 0]
                                 = [tasks[i] EXCEPT !.completed_duration = 0,
                                                    !.completion_ratio = 0]
                     ELSE tasks'[i] = tasks[i]
              /\ UNCHANGED <<productivity_patterns, schedules>>]_vars

\* after an update of a held task: two deltas of 25 have added up, and the
\* ratio is one that was set on its own
C11_Witness ==
    /\ ret.op = "update_task_progress"
    /\ \E i \in 1..Len(tasks) :
           /\ tasks[i].task_id = ret.task_id
           /\ tasks[i].completed_duration = 50
           /\ tasks[i].completion_ratio = 120

\* C12: a run leaves every task (completed_duration, completion_ratio
\* and all other fields) and every productivity pattern unchanged, and a
\* run that follows a run with the same arguments at the same current time
\* returns the same schedules, block for block.
C12_RunPureDeterministic ==
    [][ret'.op = "generate_optimal_schedule"
       => /\ tasks' = tasks
          /\ productivity_patterns' = productivity_patterns
          /\ (/\ ret.op = "generate_optimal_schedule"
              /\ ret.user_id = ret'.user_id
              /\ ret.start_date = ret'.start_date
              /\ ret.days = ret'.days
              /\ now' = now)
             => ret'.value = ret.value]_vars

\* a run that returned blocks after an earlier run over more days had
\* stored the same day: the stored and the returned schedule agree and the
\* placed tasks are still pending
C12_Witness ==
    /\ IsRun
    /\ ret.value # <<>>
    /\ DOMAIN ret.value # DOMAIN schedules
    /\ \A d \in DOMAIN ret.value :
           /\ schedules[d] = ret.value[d]
           /\ \A i \in 1..Len(ret.value[d].schedule_blocks) :
                  HeldTask(ret.value[d].schedule_blocks[i].task.task_id)
                      .completion_ratio = 0

\* the ids of the tasks a schedule places
PlacedIds(schedule) ==
    {schedule.schedule_blocks[k].task.task_id :
        k \in 1..Len(schedule.schedule_blocks)}

\* C13: no call removes a task from the task map, and a task whose
\* completion_ratio is >= 1.0 when a run is made appears in no block of a
\* schedule that run returns, whatever its remaining_duration.
C13_NeverRemovedNeverPlaced ==
    [][/\ {tasks[i].task_id : i \in 1..Len(tasks)}
              \subseteq {tasks'[i].task_id : i \in 1..Len(tasks')}
       /\ ret'.op = "generate_optimal_schedule"
          => \A d \in DOMAIN ret'.value :
                 \A i \in 1..Len(tasks) :
                     tasks[i].completion_ratio >= 100
                     => tasks[i].task_id \notin PlacedIds(ret'.value[d])]_vars

\* a run that placed a pending task while a held task at ratio 1.0 with
\* work for a whole block remaining was left out
C13_Witness ==
    /\ IsRun
    /\ ret.value # <<>>
    /\ \E i \in 1..Len(tasks) :
           /\ tasks[i].completion_ratio >= 100
           /\ remaining_duration(tasks[i]) >= min_task_block_minutes
           /\ \A d \in DOMAIN ret.value :
                  tasks[i].task_id \notin PlacedIds(ret.value[d])

\* C14: the adjusted_template of a validate_template result has
\* time_estimate <= time_limit, the result has the keys valid, warnings and
\* adjusted_template, and the template dictionary passed in and its
\* features list are what they were before the call.
C14_ValidateTemplate ==
    ret.op = "validate_template" =>
        /\ DOMAIN ret.value = {"valid", "warnings", "adjusted_template"}
        /\ ret.heap[ret.value.adjusted_template].time_estimate
               <= ret.time_limit
        /\ \A reference \in DOMAIN ret.heap_before :
               ret.heap[reference] = ret.heap_before[reference]

\* a call that cut the estimate, the complexity and the features of the
\* adjusted template
C14_Witness ==
    /\ ret.op = "validate_template"
    /\ ret.heap_before[ret.template_info].time_estimate > ret.time_limit
    /\ ret.heap_before[ret.template_info].complexity = "advanced"
    /\ ret.heap[ret.value.adjusted_template].complexity = "simple"
    /\ Len(ret.heap_before[ret.heap_before[ret.template_info].features]) = 4
    /\ Len(ret.heap[ret.heap[ret.value.adjusted_template].features]) = 3
    /\ ret.heap[ret.value.adjusted_template].time_estimate = ret.time_limit

\* the slots and the blocks of a day of the last run, for a registered user
DaySlots(d) ==
    _generate_time_slots(d * MinutesPerDay,
                         productivity_patterns[ret.user_id])

DayBlocks(d) ==
    IF d \in DOMAIN ret.value THEN ret.value[d].schedule_blocks ELSE <<>>

\* the blocks of a day that sit in a slot
BlocksAt(d, slot) ==
    {i \in 1..Len(DayBlocks(d)) : DayBlocks(d)[i].time_slot = slot}

\* slot_duration x efficiency, in whole minutes, reaches what the task of
\* the block has left
Covers(block) ==
    LET work == RMul(RInt(block.time_slot.duration_minutes),
                     block.estimated_efficiency)
    IN  work[1] \div work[2]
            >= remaining_duration(HeldTask(block.task.task_id))

\* the match score of a held task for a slot of the last run
ScoreAt(task_id, slot) ==
    _calculate_task_slot_match_score(HeldTask(task_id), slot,
                                     productivity_patterns[ret.user_id], now)

RankedTasks ==
    _sort_tasks_by_priority(
        SelectSeq(tasks, LAMBDA t : t.completion_ratio < 100), now)

\* the candidates of a slot, in ranked order: pending, not covered by an
\* earlier block of the day, with a minimum block of work left
Candidates(d, slot) ==
    SelectSeq(RankedTasks,
              LAMBDA t :
                  /\ remaining_duration(t) >= min_task_block_minutes
                  /\ ~\E i \in 1..Len(DayBlocks(d)) :
                         /\ DayBlocks(d)[i].time_slot.start_time
                                < slot.start_time
                         /\ DayBlocks(d)[i].task.task_id = t.task_id
                         /\ Covers(DayBlocks(d)[i]))

\* C16: each slot of a day holds one block when it has a candidate and
\* none otherwise; the task of the block is a candidate of maximal match
\* score, and the earliest in the ranked list among those.
C16_BestCandidateFirstWins ==
    IsRun /\ ret.user_id \in DOMAIN productivity_patterns =>
        \A d \in RunDates :
            \A k \in 1..Len(DaySlots(d)) :
                LET slot == DaySlots(d)[k]
                    candidates == Candidates(d, slot)
                IN  IF candidates = <<>> THEN BlocksAt(d, slot) = {}
                    ELSE /\ Cardinality(BlocksAt(d, slot)) = 1
                         /\ \A i \in BlocksAt(d, slot) :
                                \E c \in 1..Len(candidates) :
                                    /\ candidates[c].task_id
                                           = DayBlocks(d)[i].task.task_id
                                    /\ \A m \in 1..Len(candidates) :
                                           /\ RLe(ScoreAt(candidates[m].task_id,
                                                          slot),
                                                  ScoreAt(candidates[c].task_id,
                                                          slot))
                                           /\ m < c =>
                                                  RLt(ScoreAt(
                                                        candidates[m].task_id,
                                                        slot),
                                                      ScoreAt(
                                                        candidates[c].task_id,
                                                        slot))

\* a slot with two candidates of the same maximal score, held by the one
\* that comes first in the ranked list
C16_Witness ==
    /\ IsRun
    /\ \E d \in DOMAIN ret.value :
           \E k \in 1..Len(DaySlots(d)) :
               LET slot == DaySlots(d)[k]
                   candidates == Candidates(d, slot)
               IN  /\ Len(candidates) >= 2
                   /\ ScoreAt(candidates[1].task_id, slot)
                          = ScoreAt(candidates[2].task_id, slot)
                   /\ \E i \in BlocksAt(d, slot) :
                          DayBlocks(d)[i].task.task_id
                              = candidates[1].task_id

\* C17: every block of a schedule a run returns holds a task that is not
\* completed and has at least min_task_block_minutes (30) of work left at
\* the time of the run; a task with less left is in no block.
C17_BlocksHoldFittingPending ==
    \A s \in ReturnedSchedules :
        \A k \in 1..Len(s.schedule_blocks) :
            LET task == HeldTask(s.schedule_blocks[k].task.task_id)
            IN  /\ task.completion_ratio < 100
                /\ remaining_duration(task) >= min_task_block_minutes

\* a run that returned blocks while a pending task with some work left,
\* but less than a minimum block, was held
C17_Witness ==
    /\ IsRun
    /\ ret.value # <<>>
    /\ \E i \in 1..Len(tasks) :
           /\ tasks[i].completion_ratio < 100
           /\ remaining_duration(tasks[i]) < min_task_block_minutes
           /\ remaining_duration(tasks[i]) > 0

\* the key of the ranking: 2*urgency_score + deadline_pressure
\* + 0.1*remaining_hours
SortKey(task, at) ==
    LET deadline_pressure ==
            IF task.deadline = {} THEN 0
            ELSE LET days_left ==
                         ((CHOOSE d \in task.deadline : TRUE) - at)
                             \div MinutesPerDay
                 IN  IF 10 - days_left > 0 THEN 10 - days_left ELSE 0
        remaining_hours == Rat(remaining_duration(task), MinutesPerHour)
    IN  RAdd(RInt(2 * urgency_score(task, at) + deadline_pressure),
             RMul(Rat(1, 10), remaining_hours))

\* the place of a task in a list of tasks with distinct ids
PlaceIn(task_list, task) ==
    CHOOSE i \in 1..Len(task_list) : task_list[i] = task

\* C18: _sort_tasks_by_priority returns a permutation of its input, in
\* non-increasing order of the key, with tasks of equal key in their input
\* order.
C18_StableDescendingSort ==
    ret.op = "_sort_tasks_by_priority" =>
        /\ Len(ret.value) = Len(ret.task_list)
        /\ \A i \in 1..Len(ret.task_list) :
               \E j \in 1..Len(ret.value) : ret.value[j] = ret.task_list[i]
        /\ \A j, k \in 1..Len(ret.value) :
               j < k =>
                   /\ RLe(SortKey(ret.value[k], ret.at),
                          SortKey(ret.value[j], ret.at))
                   /\ SortKey(ret.value[k], ret.at)
                          = SortKey(ret.value[j], ret.at)
                      => PlaceIn(ret.task_list, ret.value[j])
                             < PlaceIn(ret.task_list, ret.value[k])

\* a list of three that the sort reorders although two of its tasks have
\* the same key
C18_Witness ==
    /\ ret.op = "_sort_tasks_by_priority"
    /\ Len(ret.task_list) = 3
    /\ ret.value # ret.task_list
    /\ \E j, k \in 1..3 :
           /\ j < k
           /\ SortKey(ret.value[j], ret.at) = SortKey(ret.value[k], ret.at)
    /\ \E j, k \in 1..3 :
           SortKey(ret.value[j], ret.at) # SortKey(ret.value[k], ret.at)

\* C19: when _generate_time_slots returns slots, the first one starts at
\* preferred_work_start of the day of the given date, every following one
\* starts break_duration minutes after the end of the one before it, and
\* every slot but the last lasts exactly focus_duration minutes.
C19_SlotStartsAndLengths ==
    (ret.op = "_generate_time_slots" /\ ret.value # <<>>) =>
        /\ ret.value[1].start_time =
               (ret.date \div MinutesPerDay) * MinutesPerDay
                   + ret.pattern.preferred_work_start
        /\ \A i \in 1..(Len(ret.value) - 1) :
               /\ ret.value[i + 1].start_time =
                      ret.value[i].end_time + ret.pattern.break_duration
               /\ ret.value[i].duration_minutes = ret.pattern.focus_duration

\* three slots with a break between them, the last one cut short by the
\* end of the work hours, on a date that is not at midnight
C19_Witness ==
    /\ ret.op = "_generate_time_slots"
    /\ Len(ret.value) >= 3
    /\ ret.pattern.break_duration > 0
    /\ ret.date % MinutesPerDay # 0
    /\ ret.value[Len(ret.value)].duration_minutes
           < ret.pattern.focus_duration

\* the instant the loop of _generate_time_slots stands at after the slots
\* it returned
StopPosition ==
    IF ret.value = <<>>
    THEN (ret.date \div MinutesPerDay) * MinutesPerDay
             + ret.pattern.preferred_work_start
    ELSE ret.value[Len(ret.value)].end_time + ret.pattern.break_duration

WorkEnd ==
    (ret.date \div MinutesPerDay) * MinutesPerDay
        + ret.pattern.preferred_work_end

\* C20: every slot of _generate_time_slots lasts at least
\* min_task_block_minutes and at most focus_duration, from its start to its
\* end, and ends no later than preferred_work_end; after the last slot the
\* loop stands at or past preferred_work_end or at a position where the
\* slot capped by the time left is shorter than min_task_block_minutes; a
\* pattern with preferred_work_end <= preferred_work_start or with
\* focus_duration < min_task_block_minutes gets no slot.
C20_SlotBoundsAndStop ==
    ret.op = "_generate_time_slots" =>
        /\ \A i \in 1..Len(ret.value) :
               /\ min_task_block_minutes <= ret.value[i].duration_minutes
               /\ ret.value[i].duration_minutes <= ret.pattern.focus_duration
               /\ ret.value[i].end_time - ret.value[i].start_time =
                      ret.value[i].duration_minutes
               /\ ret.value[i].end_time <= WorkEnd
        /\ \/ StopPosition >= WorkEnd
           \/ ret.pattern.focus_duration < min_task_block_minutes
           \/ WorkEnd - StopPosition < min_task_block_minutes
        /\ (\/ ret.pattern.preferred_work_end
                  <= ret.pattern.preferred_work_start
            \/ ret.pattern.focus_duration < min_task_block_minutes)
               => ret.value = <<>>

\* a slot of exactly min_task_block_minutes was made, and the loop stopped
\* before preferred_work_end with less than the minimum left
C20_Witness ==
    /\ ret.op = "_generate_time_slots"
    /\ \E i \in 1..Len(ret.value) :
           ret.value[i].duration_minutes = min_task_block_minutes
    /\ StopPosition < WorkEnd
    /\ WorkEnd - StopPosition < min_task_block_minutes

\* the frame of a run that is inside its day loop
InRun == ret.op = "running"

\* ceil(window_minutes / (focus_duration + break_duration)) of the pattern
\* of the running call, window_minutes being preferred_work_end -
\* preferred_work_start
SlotCeiling ==
    LET window_minutes == ret.pattern.preferred_work_end
                              - ret.pattern.preferred_work_start
        period == ret.pattern.focus_duration + ret.pattern.break_duration
    IN  (window_minutes + period - 1) \div period

\* a call that has not returned yet
Unfinished == ret.op \in {"call", "running"}

\* the frame after the next step of an unfinished call
FrameAfterStep ==
    CASE ret.op = "call" ->
             EnterRun(productivity_patterns, tasks, ret.user_id,
                      ret.start_date, ret.days, now)
      [] ret.op = "running" /\ ret.pc = "for_day" -> ForDay(ret)
      [] ret.op = "running" /\ ret.pc = "while_slot" -> WhileSlot(ret)
      [] ret.op = "running" /\ ret.pc = "allocate" -> AllocateDay(ret, now)

\* the steps a frame has left at most: the days still to do, each counted
\* as its minutes plus two, and within the day the minutes of the work
\* hours still ahead
StepsLeft(frame) ==
    LET per_day == MinutesPerDay + 2
    IN  CASE frame.op = "generate_optimal_schedule" -> 0
          [] frame.op = "call" -> (frame.days + 1) * per_day + 1
          [] frame.op = "running" ->
                 (frame.days - frame.day) * per_day
                 + (CASE frame.pc = "for_day" -> per_day
                      [] frame.pc = "while_slot" ->
                             2 + Max(0, frame.work_end - frame.current_time)
                      [] frame.pc = "allocate" -> 1)

\* C21: for every pattern with focus_duration >= 1 and break_duration >= 0
\* and every number of days, generate_optimal_schedule terminates: every
\* step of the call, each turn of the slot loop included, brings it
\* strictly closer to its return on a measure that is never negative; and
\* the slots generated for a day are at most
\* ceil(window_minutes / (focus_duration + break_duration)), none when the
\* work hours end no later than they start.  The slots and the schedules
\* the steps build are those of the call taken as a whole.
C21_RunTerminates ==
    /\ InRun => Len(ret.slots) <= Max(0, SlotCeiling)
    /\ Unfinished =>
           /\ 0 <= StepsLeft(FrameAfterStep)
           /\ StepsLeft(FrameAfterStep) < StepsLeft(ret)
    /\ (InRun /\ ret.pc = "allocate")
           => ret.slots = _generate_time_slots(ret.day_date, ret.pattern)
    /\ IsRun => ret.value = GenerateResult(productivity_patterns, tasks,
                                           ret.user_id, ret.start_date,
                                           ret.days, now)

\* the slot loop of the last day was left with as many slots as the
\* ceiling allows, three or more, with a break between them
C21_Witness ==
    /\ InRun
    /\ ret.pc = "allocate"
    /\ ret.day = MaxDays - 1
    /\ ret.pattern.break_duration > 0
    /\ Len(ret.slots) >= 3
    /\ Len(ret.slots) = SlotCeiling

\* C22: in every generated DailySchedule with n blocks, total_work_time is
\* the sum of the slot durations of its blocks, and total_break_time is the
\* sum of break_before + break_after over its blocks, which is
\* break_duration * (n - 1): the first block has no break before it, every
\* later block has break_duration before it, and no block has a break
\* after it.
C22_WorkAndBreakTotals ==
    \A schedule \in AllSchedules :
        LET blocks == schedule.schedule_blocks
            n == Len(blocks)
            break_duration == productivity_patterns["u1"].break_duration
        IN  /\ schedule.total_work_time =
                   SumInt([i \in 1..n |-> blocks[i].time_slot.duration_minutes],
                          n)
            /\ schedule.total_break_time =
                   SumInt([i \in 1..n |->
                              blocks[i].break_before + blocks[i].break_after],
                          n)
            /\ schedule.total_break_time = break_duration * (n - 1)
            /\ blocks[1].break_before = 0
            /\ \A i \in 2..n : blocks[i].break_before = break_duration
            /\ \A i \in 1..n : blocks[i].break_after = 0

\* a returned schedule of two blocks, of 90 and 75 minutes, with the break
\* of 15 minutes counted once
C22_Witness ==
    /\ IsRun
    /\ \E d \in DOMAIN ret.value :
           /\ Len(ret.value[d].schedule_blocks) = 2
           /\ ret.value[d].total_work_time = 165
           /\ ret.value[d].total_break_time = 15

IsSuggest == ret.op = "suggest_schedule_adjustments"

\* the types of the records of a suggestion list, in order
TypesOf(suggestions) == [i \in 1..Len(suggestions) |-> suggestions[i].type]

\* the blocks of a schedule whose estimated_efficiency is below
\* efficiency_threshold, in block order
LowBlocks(schedule) ==
    SelectSeq(schedule.schedule_blocks,
              LAMBDA b : 10 * b.estimated_efficiency[1]
                             < efficiency_threshold_tenths
                                   * b.estimated_efficiency[2])

\* the record types the checks of a schedule call for, in the order of
\* the checks
ExpectedTypes(schedule) ==
    [i \in 1..Len(LowBlocks(schedule)) |-> "efficiency_improvement"]
    \o (IF schedule.total_work_time > 480
        THEN <<"workload_reduction">> ELSE <<>>)
    \o (IF 100 * schedule.total_break_time < 15 * schedule.total_work_time
        THEN <<"break_improvement">> ELSE <<>>)
    \o (IF 2 * schedule.flexibility_score[1] < schedule.flexibility_score[2]
        THEN <<"flexibility_improvement">> ELSE <<>>)

\* C23: suggest_schedule_adjustments(date) changes no stored schedule and
\* no task; for a date with no stored schedule it returns the empty
\* list; otherwise it returns one efficiency_improvement record for each
\* block with estimated_efficiency < 0.7, in block order and naming the
\* block, then a workload_reduction record iff total_work_time > 480,
\* then a break_improvement record iff total_break_time < 0.15 *
\* total_work_time, then a flexibility_improvement record iff
\* flexibility_score < 0.5.
C23_SuggestionsInOrder ==
    [][ret'.op = "suggest_schedule_adjustments"
       => /\ schedules' = schedules
          /\ tasks' = tasks
          /\ ret'.date_str \notin DOMAIN schedules => ret'.value = <<>>
          /\ ret'.date_str \in DOMAIN schedules
             => LET schedule == schedules[ret'.date_str]
                    low == LowBlocks(schedule)
                IN  /\ TypesOf(ret'.value) = ExpectedTypes(schedule)
                    /\ \A i \in 1..Len(low) :
                           ret'.value[i].block_id = low[i].block_id]_vars

\* suggestions for a stored day of seven blocks: two or more blocks below
\* the threshold and at least one above it, more than 480 minutes of work,
\* too little break
C23_Witness ==
    /\ IsSuggest
    /\ ret.date_str \in DOMAIN schedules
    /\ Len(schedules[ret.date_str].schedule_blocks) = 7
    /\ Len(LowBlocks(schedules[ret.date_str])) >= 2
    /\ Len(LowBlocks(schedules[ret.date_str])) < 7
    /\ \E i \in 1..Len(ret.value) :
           /\ i + 1 = Len(ret.value)
           /\ ret.value[i].type = "workload_reduction"
           /\ ret.value[i + 1].type = "break_improvement"

\* C24: urgency_score is a step function of d, the whole days from the
\* current time to the deadline: 10 for d <= 0, 8 for d = 1, 6 for d in
\* 2..3, 4 for d in 4..7, and the value of the task's priority (1..5) for
\* d > 7 and for a task without deadline.
C24_UrgencySteps ==
    ret.op = "urgency_score" =>
        LET priority_value ==
                CASE ret.task.priority = "CRITICAL" -> 5
                  [] ret.task.priority = "HIGH" -> 4
                  [] ret.task.priority = "MEDIUM" -> 3
                  [] ret.task.priority = "LOW" -> 2
                  [] ret.task.priority = "OPTIONAL" -> 1
        IN  /\ ret.task.deadline = {} => ret.value = priority_value
            /\ \A deadline \in ret.task.deadline :
                   LET d == (deadline - ret.at) \div MinutesPerDay
                   IN  ret.value =
                           CASE d <= 0 -> 10
                             [] d = 1 -> 8
                             [] d \in 2..3 -> 6
                             [] d \in 4..7 -> 4
                             [] d > 7 -> priority_value

\* a deadline one minute short of four days ahead: d = 3, score 6
C24_Witness ==
    /\ ret.op = "urgency_score"
    /\ ret.task.deadline = {ret.at + 4 * MinutesPerDay - 1}
    /\ ret.task.priority = "OPTIONAL"
    /\ ret.value = 6

\* the blocks the allocation has appended once it has handled the first k
\* slots of a day of the last run
BlocksAfter(d, k) ==
    AllocLoop(SubSeq(DaySlots(d), 1, k), RankedTasks,
              productivity_patterns[ret.user_id], now, <<>>, {})

\* C25: in every schedule a run returns, each block sits in a slot of the
\* day, each slot holds at most one block, and the blocks are listed in
\* strictly increasing order of slot start time; the blocks appended
\* after the first k slots are still, unchanged and in place, the first
\* blocks of the schedule after all slots: no later slot changes or
\* removes a block.
C25_OneBlockPerSlotForwardPass ==
    IsRun =>
        \A d \in DOMAIN ret.value :
            LET blocks == DayBlocks(d)
                slots == DaySlots(d)
            IN  /\ \A i \in 1..Len(blocks) :
                       \E k \in 1..Len(slots) : blocks[i].time_slot = slots[k]
                /\ \A k \in 1..Len(slots) :
                       Cardinality(BlocksAt(d, slots[k])) <= 1
                /\ \A i, j \in 1..Len(blocks) :
                       i < j => blocks[i].time_slot.start_time
                                    < blocks[j].time_slot.start_time
                /\ \A k \in 0..Len(slots) :
                       /\ Len(BlocksAfter(d, k)) <= Len(blocks)
                       /\ BlocksAfter(d, k)
                              = SubSeq(blocks, 1, Len(BlocksAfter(d, k)))

\* a day of six blocks that hold two different tasks, each block in its
\* own slot
C25_Witness ==
    /\ IsRun
    /\ \E d \in DOMAIN ret.value :
           /\ Len(DayBlocks(d)) = 6
           /\ Len(DaySlots(d)) = 6
           /\ Cardinality(PlacedIds(ret.value[d])) = 2

\* C26: every generated DailySchedule has 0.5 <= flexibility_score <= 1.0,
\* and so suggest_schedule_adjustments, whose check is flexibility_score <
\* 0.5, returns no flexibility_improvement record for a schedule that
\* generate_optimal_schedule stored.
C26_FlexibilityAtLeastHalf ==
    /\ \A schedule \in AllSchedules :
           /\ schedule.flexibility_score[2] > 0
           /\ schedule.flexibility_score[2] <= 2 * schedule.flexibility_score[1]
           /\ schedule.flexibility_score[1] <= schedule.flexibility_score[2]
    /\ IsSuggest =>
           \A i \in 1..Len(ret.value) :
               ret.value[i].type # "flexibility_improvement"

\* suggestions for a stored day whose flexibility_score is exactly 0.5:
\* blocks of 180 minutes, twice the length at which the duration factor
\* reaches its floor, for tasks that cannot be interrupted
C26_Witness ==
    /\ IsSuggest
    /\ ret.date_str \in DOMAIN schedules
    /\ schedules[ret.date_str].flexibility_score = <<1, 2>>
    /\ Len(schedules[ret.date_str].schedule_blocks) >= 2
    /\ schedules[ret.date_str].schedule_blocks[1].time_slot.duration_minutes
           = 180
    /\ ret.value # <<>>

\* C27: every generated schedule with exactly one block has
\* total_break_time 0, whatever the break_duration of the pattern, and the
\* suggestions for the date of such a schedule contain a break_improvement
\* record.
C27_OneBlockAlwaysBreakAdvice ==
    /\ \A schedule \in AllSchedules :
           Len(schedule.schedule_blocks) = 1 => schedule.total_break_time = 0
    /\ (/\ IsSuggest
        /\ ret.date_str \in DOMAIN schedules
        /\ Len(schedules[ret.date_str].schedule_blocks) = 1)
           => \E i \in 1..Len(ret.value) :
                  ret.value[i].type = "break_improvement"

\* suggestions for a stored day of one block of 180 minutes under a
\* pattern with a break_duration of 60 minutes
C27_Witness ==
    /\ IsSuggest
    /\ ret.date_str \in DOMAIN schedules
    /\ Len(schedules[ret.date_str].schedule_blocks) = 1
    /\ schedules[ret.date_str].total_work_time = 180
    /\ productivity_patterns["u1"].break_duration = 60
    /\ \E i \in 1..Len(ret.value) : ret.value[i].type = "break_improvement"

\* what a block is apart from its day: task, time of day and length of
\* its slot, efficiency
BlockOfDay(block) ==
    [task_id |-> block.task.task_id,
     start |-> block.time_slot.start_time % MinutesPerDay,
     end |-> block.time_slot.end_time % MinutesPerDay,
     duration_minutes |-> block.time_slot.duration_minutes,
     estimated_efficiency |-> block.estimated_efficiency]

\* C28: a run over several days returns, for every day of the horizon, the
\* same sequence of blocks: same task, same time of day and duration of the
\* slot, same efficiency; a run that returns a schedule for one day
\* returns one for each day, and a task placed on the first day is placed
\* on every later day.
C28_EveryDayAlike ==
    (IsRun /\ ret.value # <<>>) =>
        /\ DOMAIN ret.value = RunDates
        /\ \A d, e \in RunDates :
               /\ Len(ret.value[d].schedule_blocks)
                      = Len(ret.value[e].schedule_blocks)
               /\ \A i \in 1..Len(ret.value[d].schedule_blocks) :
                      BlockOfDay(ret.value[d].schedule_blocks[i])
                          = BlockOfDay(ret.value[e].schedule_blocks[i])
               /\ PlacedIds(ret.value[d]) = PlacedIds(ret.value[e])

\* a run over two days or more whose first day covers a task with its
\* first block and places a second task after it; both are back on the
\* last day
C28_Witness ==
    /\ IsRun
    /\ ret.days >= 2
    /\ DOMAIN ret.value = RunDates
    /\ \E d \in RunDates :
           /\ d - 1 \notin RunDates
           /\ Len(ret.value[d].schedule_blocks) = 2
           /\ Covers(ret.value[d].schedule_blocks[1])
           /\ Cardinality(PlacedIds(ret.value[d + ret.days - 1])) = 2

\* C29: whether a task is completed does not depend on its completed
\* minutes: an update that leaves completion_ratio as it was leaves
\* is_completed as it was; remaining_duration is never negative, whatever
\* updates were made; and a run made when every task with completion_ratio
\* < 1.0 has remaining_duration below min_task_block_minutes returns the
\* empty mapping, also when there are such tasks.
C29_CompletionApartFromRemaining ==
    [][/\ ret'.op = "update_task_progress"
          => /\ Len(tasks') = Len(tasks)
             /\ \A i \in 1..Len(tasks) :
                    /\ remaining_duration(tasks'[i]) >= 0
                    /\ tasks'[i].completion_ratio = tasks[i].completion_ratio
                       => is_completed(tasks'[i]) = is_completed(tasks[i])
       /\ (/\ ret'.op = "generate_optimal_schedule"
           /\ \A i \in 1..Len(tasks) :
                  tasks[i].completion_ratio < 100
                  => remaining_duration(tasks[i]) < min_task_block_minutes)
          => ret'.value = <<>>]_vars

\* a run for a user whose pattern has slots returned nothing while a task
\* at ratio 0 with 20 of its 90 minutes left, after an update of 70
\* minutes, was pending
C29_Witness ==
    /\ IsRun
    /\ ret.value = <<>>
    /\ ret.days >= 1
    /\ ret.user_id \in DOMAIN productivity_patterns
    /\ _generate_time_slots(ret.start_date,
                            productivity_patterns[ret.user_id]) # <<>>
    /\ \E i \in 1..Len(tasks) :
           /\ tasks[i].completion_ratio = 0
           /\ tasks[i].estimated_duration = 90
           /\ tasks[i].completed_duration = MaxCompleted
           /\ remaining_duration(tasks[i]) = 90 - MaxCompleted

\* C30: when generate_optimal_schedule returns, the store holds the
\* returned schedule for every date of the returned mapping, in place of
\* any earlier one, and for every other date what it held before: a date
\* the run returns nothing for keeps its old schedule.
\* suggest_schedule_adjustments and export_schedule read whatever the
\* store holds for the date.
C30_StoreKeepsOtherDates ==
    [][/\ ret'.op = "generate_optimal_schedule"
          => /\ DOMAIN schedules' = DOMAIN schedules \cup DOMAIN ret'.value
             /\ \A d \in DOMAIN schedules' :
                    schedules'[d] = IF d \in DOMAIN ret'.value
                                    THEN ret'.value[d]
                                    ELSE schedules[d]
       /\ (/\ ret'.op = "export_schedule"
           /\ ret'.format = "json"
           /\ ret'.date_str \in DOMAIN schedules)
          => ret'.value = [json |-> schedules[ret'.date_str]]
       /\ (/\ ret'.op = "suggest_schedule_adjustments"
           /\ ret'.date_str \in DOMAIN schedules)
          => TypesOf(ret'.value) = ExpectedTypes(schedules[ret'.date_str])]_vars

\* a run over days that an earlier run had scheduled returned nothing,
\* every task being completed by now, and the store still holds the
\* schedules of those days
C30_Witness ==
    /\ IsRun
    /\ ret.value = <<>>
    /\ ret.days = MaxDays
    /\ ret.user_id \in DOMAIN productivity_patterns
    /\ tasks # <<>>
    /\ \A i \in 1..Len(tasks) : tasks[i].completion_ratio >= 100
    /\ RunDates \subseteq DOMAIN schedules

====
